---- MODULE Spec2Model ----
(***************************************************************************)
(* ZenPub: the EPUB codec of src/services/epubService.ts.                  *)
(*                                                                         *)
(* Text values (titles, metadata, MIME types, paths, Markdown) are         *)
(* sequences of one-character strings, so that escaping, entity decoding,  *)
(* trimming and splitting are computed character by character.  XML and    *)
(* XHTML documents are records that follow the template literals of the    *)
(* Writer: every interpolated value is a field holding the characters      *)
(* the Writer emits (escaped or not, as the code emits them); the parser   *)
(* of the Reader decodes the fields.                                       *)
(***************************************************************************)
EXTENDS Integers, Sequences, FiniteSets, TLC

(* ---------------------------------------------------------------------- *)
(* Bounds of the model                                                    *)
(* ---------------------------------------------------------------------- *)
MaxChapters == 2
MaxSpine == 2

(* ---------------------------------------------------------------------- *)
(* Strings                                                                *)
(* ---------------------------------------------------------------------- *)

\* The text of the model for a string literal of the code: its characters.
Chars(s) == [k \in 1..Len(s) |-> SubSeq(s, k, k)]

\* JavaScript's undefined, for optional string fields.
Undefined == <<"undefined">>

\* A JavaScript string in a boolean context: undefined and '' are falsy.
Truthy(s) == s # Undefined /\ s # <<>>

\* The characters String.prototype.trim removes.
WhiteSpace == {" ", "\n", "\t"}

RECURSIVE TrimStart(_)
TrimStart(s) ==
  IF s # <<>> /\ Head(s) \in WhiteSpace THEN TrimStart(Tail(s)) ELSE s

RECURSIVE TrimEnd(_)
TrimEnd(s) ==
  IF s # <<>> /\ s[Len(s)] \in WhiteSpace
    THEN TrimEnd(SubSeq(s, 1, Len(s) - 1))
    ELSE s

\* String.prototype.trim
Trim(s) == TrimEnd(TrimStart(s))

\* String.prototype.split(sep) for a one-character separator: always at
\* least one part; '' splits into [''].
RECURSIVE SplitFrom(_, _, _)
SplitFrom(s, sep, cur) ==
  IF s = <<>> THEN <<cur>>
  ELSE IF Head(s) = sep THEN <<cur>> \o SplitFrom(Tail(s), sep, <<>>)
  ELSE SplitFrom(Tail(s), sep, Append(cur, Head(s)))

Split(s, sep) == SplitFrom(s, sep, <<>>)

\* Array.prototype.join(sep): the empty array joins to ''.
RECURSIVE Join(_, _)
Join(parts, sep) ==
  IF parts = <<>> THEN <<>>
  ELSE IF Len(parts) = 1 THEN parts[1]
  ELSE parts[1] \o <<sep>> \o Join(Tail(parts), sep)

\* Decimal digits of a natural number, as `${n}` prints it.
Digit(d) == Chars("0123456789")[d + 1]

RECURSIVE NumStr(_)
NumStr(n) == IF n < 10 THEN <<Digit(n)>> ELSE NumStr(n \div 10) \o <<Digit(n % 10)>>

\* All sequences over S of length at most n.
SeqUpTo(S, n) == UNION {[1..k -> S] : k \in 0..n}

(* ---------------------------------------------------------------------- *)
(* escapeXml and the XML parser's entity decoding                         *)
(* ---------------------------------------------------------------------- *)

\* The replacement callback of escapeXml: the switch over the matched char.
EscapeChar(c) ==
  CASE c = "<" -> Chars("&lt;")
    [] c = ">" -> Chars("&gt;")
    [] c = "&" -> Chars("&amp;")
    [] c = "'" -> Chars("&apos;")
    [] c = "\"" -> Chars("&quot;")
    [] OTHER -> <<c>>

RECURSIVE ReplaceChars(_)
ReplaceChars(s) ==
  IF s = <<>> THEN <<>> ELSE EscapeChar(Head(s)) \o ReplaceChars(Tail(s))

\* escapeXml: '' for a falsy argument, else every one of < > & ' " replaced.
escapeXml(unsafe) == IF ~Truthy(unsafe) THEN <<>> ELSE ReplaceChars(unsafe)

\* The position of the first ';' of s, 0 when there is none.
RECURSIVE IndexOfSemi(_, _)
IndexOfSemi(s, k) ==
  IF k > Len(s) THEN 0 ELSE IF s[k] = ";" THEN k ELSE IndexOfSemi(s, k + 1)

\* The character an entity reference stands for; <<>> for an unknown one.
EntityChar(ref) ==
  CASE ref = Chars("&amp;") -> <<"&">>
    [] ref = Chars("&lt;") -> <<"<">>
    [] ref = Chars("&gt;") -> <<">">>
    [] ref = Chars("&apos;") -> <<"'">>
    [] ref = Chars("&quot;") -> <<"\"">>
    [] ref = Chars("&#39;") -> <<"'">>
    [] OTHER -> <<>>

\* Character data is well-formed when it holds no literal < and every &
\* starts a known entity reference.
RECURSIVE WellFormedText(_)
WellFormedText(s) ==
  IF s = <<>> THEN TRUE
  ELSE IF Head(s) = "<" THEN FALSE
  ELSE IF Head(s) = "&"
    THEN LET k == IndexOfSemi(s, 1)
         IN  /\ k > 0
             /\ EntityChar(SubSeq(s, 1, k)) # <<>>
             /\ WellFormedText(SubSeq(s, k + 1, Len(s)))
  ELSE WellFormedText(Tail(s))

\* A double-quoted attribute value: character data without a literal ".
WellFormedAttr(s) == WellFormedText(s) /\ \A k \in 1..Len(s) : s[k] # "\""

\* textContent / getAttribute of parsed, well-formed XML: entity references
\* replaced by the characters they stand for.
RECURSIVE XmlDecode(_)
XmlDecode(s) ==
  IF s = <<>> THEN <<>>
  ELSE IF Head(s) = "&"
    THEN LET k == IndexOfSemi(s, 1)
         IN  EntityChar(SubSeq(s, 1, k)) \o XmlDecode(SubSeq(s, k + 1, Len(s)))
  ELSE <<Head(s)>> \o XmlDecode(Tail(s))

(* ---------------------------------------------------------------------- *)
(* Markdown -> HTML (marked.parse), for the Markdown the model writes:    *)
(* ATX headings, paragraphs, thematic breaks and lines of raw HTML, one   *)
(* block per run of non-blank lines; no inline markup.                    *)
(* ---------------------------------------------------------------------- *)

\* <name>inner</name>
Element(name, inner) == <<"<">> \o name \o <<">">> \o inner \o Chars("</") \o name \o <<">">>

\* s starts with the characters of pre.
StartsWith(s, pre) == Len(s) >= Len(pre) /\ SubSeq(s, 1, Len(pre)) = pre

\* The number of leading '#' of a line.
RECURSIVE HashRun(_)
HashRun(line) ==
  IF line # <<>> /\ Head(line) = "#" THEN 1 + HashRun(Tail(line)) ELSE 0

\* An ATX heading line: one to six '#', then white space or the line's end.
IsAtx(line) ==
  LET n == HashRun(line)
  IN  /\ n \in 1..6
      /\ (Len(line) = n \/ line[n + 1] \in WhiteSpace)

\* A thematic break: three or more '-' and nothing else.
IsRule(line) == Len(line) >= 3 /\ \A k \in 1..Len(line) : line[k] = "-"

\* marked's escaping of text: < > " ' and every & that starts no entity.
RECURSIVE markedEscape(_)
markedEscape(s) ==
  IF s = <<>> THEN <<>>
  ELSE IF Head(s) = "&"
    THEN LET k == IndexOfSemi(s, 1)
         IN  IF k > 0 /\ EntityChar(SubSeq(s, 1, k)) # <<>>
               THEN SubSeq(s, 1, k) \o markedEscape(SubSeq(s, k + 1, Len(s)))
               ELSE Chars("&amp;") \o markedEscape(Tail(s))
  ELSE (CASE Head(s) = "<" -> Chars("&lt;")
          [] Head(s) = ">" -> Chars("&gt;")
          [] Head(s) = "\"" -> Chars("&quot;")
          [] Head(s) = "'" -> Chars("&#39;")
          [] OTHER -> <<Head(s)>>) \o markedEscape(Tail(s))

\* The paragraph collected so far, rendered; nothing for no paragraph.
Paragraph(para) ==
  IF para = <<>> THEN <<>> ELSE Element(Chars("p"), markedEscape(Trim(para))) \o <<"\n">>

RECURSIVE RenderLines(_, _)
RenderLines(lines, para) ==
  IF lines = <<>> THEN Paragraph(para)
  ELSE
    LET line == Head(lines)
        rest == Tail(lines)
        n == HashRun(line)
    IN  IF Trim(line) = <<>> THEN Paragraph(para) \o RenderLines(rest, <<>>)
        ELSE IF IsAtx(line)
          THEN Paragraph(para)
               \o Element(<<"h", Digit(n)>>, markedEscape(Trim(SubSeq(line, n + 1, Len(line)))))
               \o <<"\n">> \o RenderLines(rest, <<>>)
        ELSE IF IsRule(line)
          THEN (IF para = <<>> THEN Chars("<hr>")
                ELSE Element(Chars("h2"), markedEscape(Trim(para))))
               \o <<"\n">> \o RenderLines(rest, <<>>)
        ELSE IF Head(line) = "<" /\ para = <<>>
          THEN line \o <<"\n">> \o RenderLines(rest, <<>>)
        ELSE RenderLines(rest, IF para = <<>> THEN line ELSE para \o <<"\n">> \o line)

\* marked.parse(chapter.content)
marked_parse(content) == RenderLines(Split(content, "\n"), <<>>)

(* ---------------------------------------------------------------------- *)
(* makeXhtmlCompatible                                                    *)
(* ---------------------------------------------------------------------- *)

\* String.prototype.replace(/<lit>/g, by) for a literal pattern.
RECURSIVE ReplaceAll(_, _, _)
ReplaceAll(s, lit, by) ==
  IF s = <<>> THEN <<>>
  ELSE IF StartsWith(s, lit)
    THEN by \o ReplaceAll(SubSeq(s, Len(lit) + 1, Len(s)), lit, by)
  ELSE <<Head(s)>> \o ReplaceAll(Tail(s), lit, by)

\* The position of the first '>' of s at or after k, 0 when there is none.
RECURSIVE IndexOfGt(_, _)
IndexOfGt(s, k) ==
  IF k > Len(s) THEN 0 ELSE IF s[k] = ">" THEN k ELSE IndexOfGt(s, k + 1)

\* The end of the match of /<img([^>]*[^/])>/ at the start of s, 0 for no
\* match.  [^>]* is greedy: it first takes every character up to the first
\* '>' (at q), so [^/] takes that '>' and the match needs a second '>';
\* failing that it gives one character back, and [^/] takes the character
\* before q, which must exist and not be '/'.
ImgMatchEnd(s) ==
  IF ~StartsWith(s, Chars("<img")) THEN 0
  ELSE LET q == IndexOfGt(s, 5)
       IN  IF q = 0 THEN 0
           ELSE IF q < Len(s) /\ s[q + 1] = ">" THEN q + 1
           ELSE IF q > 5 /\ s[q - 1] # "/" THEN q
           ELSE 0

\* String.prototype.replace(/<img([^>]*[^/])>/g, '<img$1 />')
RECURSIVE ReplaceImg(_)
ReplaceImg(s) ==
  IF s = <<>> THEN <<>>
  ELSE LET e == ImgMatchEnd(s)
       IN  IF e > 0
             THEN SubSeq(s, 1, e - 1) \o Chars(" />") \o ReplaceImg(SubSeq(s, e + 1, Len(s)))
             ELSE <<Head(s)>> \o ReplaceImg(Tail(s))

makeXhtmlCompatible(html) ==
  ReplaceImg(
    ReplaceAll(
      ReplaceAll(html, Chars("<hr>"), SubSeq(Chars("<hr>"), 1, 3) \o Chars(" />")),
      Chars("<br>"), SubSeq(Chars("<br>"), 1, 3) \o Chars(" />")))

(* ---------------------------------------------------------------------- *)
(* Parsing a fragment of HTML or XHTML into its top-level elements        *)
(* (innerHTML, DOMParser), for fragments whose elements hold text and     *)
(* void tags.                                                             *)
(* ---------------------------------------------------------------------- *)

\* The elements HTML closes by itself.
VoidTags == {Chars("hr"), Chars("br"), Chars("img")}

\* The name of a tag from the characters between '<' and '>'.
RECURSIVE TagName(_)
TagName(src) ==
  IF src = <<>> \/ Head(src) \in WhiteSpace \cup {"/"} THEN <<>>
  ELSE <<Head(src)>> \o TagName(Tail(src))

\* The position of the first '</' of s at or after k, 0 when there is none.
RECURSIVE IndexOfClose(_, _)
IndexOfClose(s, k) ==
  IF k >= Len(s) THEN 0
  ELSE IF s[k] = "<" /\ s[k + 1] = "/" THEN k
  ELSE IndexOfClose(s, k + 1)

\* The top-level elements of a fragment, in document order: the tag, the
\* markup inside it, and whether the source closes it (an end tag, or the
\* self-closing form).  Text between the elements is no element.
RECURSIVE ParseNodes(_)
ParseNodes(s) ==
  IF s = <<>> THEN <<>>
  ELSE IF Head(s) # "<" THEN ParseNodes(Tail(s))
  ELSE
    LET k == IndexOfGt(s, 1)
        src == SubSeq(s, 2, k - 1)
        name == TagName(src)
        selfClosed == src # <<>> /\ src[Len(src)] = "/"
        j == IndexOfClose(s, k + 1)
        e == IndexOfGt(s, j)
    IN  IF k = 0 THEN <<>>
        ELSE IF name = <<>> THEN ParseNodes(SubSeq(s, k + 1, Len(s)))
        ELSE IF selfClosed \/ name \in VoidTags
          THEN <<[tag |-> name, inner |-> <<>>, closed |-> selfClosed]>>
               \o ParseNodes(SubSeq(s, k + 1, Len(s)))
        ELSE IF j = 0 \/ e = 0
          THEN <<[tag |-> name, inner |-> SubSeq(s, k + 1, Len(s)), closed |-> FALSE]>>
        ELSE <<[tag |-> name, inner |-> SubSeq(s, k + 1, j - 1), closed |-> TRUE]>>
             \o ParseNodes(SubSeq(s, e + 1, Len(s)))

\* The markup of s with every tag removed.
RECURSIVE StripTags(_)
StripTags(s) ==
  IF s = <<>> THEN <<>>
  ELSE IF Head(s) = "<" /\ IndexOfGt(s, 1) > 0
    THEN StripTags(SubSeq(s, IndexOfGt(s, 1) + 1, Len(s)))
  ELSE <<Head(s)>> \o StripTags(Tail(s))

\* Node.textContent of a parsed element.
textContent(el) == XmlDecode(StripTags(el.inner))

\* The first of a set of positions, 0 for the empty set.
First(positions) ==
  IF positions = {} THEN 0 ELSE CHOOSE k \in positions : \A m \in positions : k <= m

\* A fragment an XML parser accepts: every element closed, down to the void
\* tags inside the elements, and well-formed character data.
RECURSIVE WellFormedXml(_)
WellFormedXml(s) ==
  /\ WellFormedText(StripTags(s))
  /\ \A k \in 1..Len(ParseNodes(s)) :
       /\ ParseNodes(s)[k].closed
       /\ WellFormedXml(ParseNodes(s)[k].inner)

\* The elements an XML parser has built when it meets the first error.
ParsedBeforeError(els) ==
  LET bad(el) == ~el.closed \/ ~WellFormedXml(el.inner)
      k == First({p \in 1..Len(els) : bad(els[p])})
  IN  IF k = 0 THEN els ELSE SubSeq(els, 1, k - 1)

(* ---------------------------------------------------------------------- *)
(* HTML -> Markdown (TurndownService, headingStyle atx)                   *)
(* ---------------------------------------------------------------------- *)

\* n times '#'
RECURSIVE Hashes(_)
Hashes(n) == IF n = 0 THEN <<>> ELSE <<"#">> \o Hashes(n - 1)

HeadingTags == {<<"h", Digit(n)>> : n \in 1..6}

\* Turndown escapes text that would read as Markdown: here a leading
\* heading marker.
turndownEscape(text) == IF IsAtx(text) THEN <<"\\">> \o text ELSE text

\* The Markdown of one element; '' for a blank element, which turndown drops.
turndownNode(el) ==
  LET text == Trim(textContent(el))
  IN  IF el.tag = Chars("hr") THEN Chars("* * *")
      ELSE IF el.tag = Chars("br") \/ el.tag = Chars("img") \/ text = <<>> THEN <<>>
      ELSE IF el.tag \in HeadingTags
        THEN Hashes(CHOOSE n \in 1..6 : el.tag = <<"h", Digit(n)>>) \o <<" ">> \o text
      ELSE turndownEscape(text)

\* The blocks joined by a blank line.
RECURSIVE JoinBlocks(_)
JoinBlocks(blocks) ==
  IF blocks = <<>> THEN <<>>
  ELSE IF Head(blocks) = <<>> THEN JoinBlocks(Tail(blocks))
  ELSE IF JoinBlocks(Tail(blocks)) = <<>> THEN Head(blocks)
  ELSE Head(blocks) \o Chars("\n\n") \o JoinBlocks(Tail(blocks))

\* turndownService.turndown(doc.body.innerHTML), on the parsed elements
turndown(els) == JoinBlocks([k \in 1..Len(els) |-> turndownNode(els[k])])

(* ---------------------------------------------------------------------- *)
(* JSZip: an archive is the sequence of its entries, in insertion order   *)
(* ---------------------------------------------------------------------- *)

ZipHas(zip, name) == \E k \in 1..Len(zip) : zip[k].name = name

ZipIndex(zip, name) == CHOOSE k \in 1..Len(zip) : zip[k].name = name

\* zip.folder(name): the directory entry name/ is added unless it exists.
ZipFolder(zip, name) ==
  IF ZipHas(zip, name \o <<"/">>) THEN zip
  ELSE Append(zip, [name |-> name \o <<"/">>, dir |-> TRUE, compression |-> "default",
                    content |-> [type |-> "dir"]])

\* zip.file(name, data, options): a new entry is added last, an entry of
\* the same name is replaced where it stands.
ZipFile(zip, name, content, compression) ==
  LET e == [name |-> name, dir |-> FALSE, compression |-> compression, content |-> content]
  IN  IF ZipHas(zip, name) THEN [zip EXCEPT ![ZipIndex(zip, name)] = e] ELSE Append(zip, e)

\* zip.file(name) as a getter: the entry of that name unless it is a
\* directory; null is the empty sequence here.
ZipGet(zip, name) ==
  IF ZipHas(zip, name) /\ ~zip[ZipIndex(zip, name)].dir
    THEN <<zip[ZipIndex(zip, name)]>>
    ELSE <<>>

\* zip.generateAsync({type: 'blob'}): every entry in insertion order, with
\* its own compression or, without one, the default of generateAsync.
GenerateBlob(zip) ==
  [k \in 1..Len(zip) |->
     [zip[k] EXCEPT !.compression = IF @ = "default" THEN "STORE" ELSE @]]

\* JSZip.loadAsync(file): the entries by name; how each was compressed is
\* not part of what the Reader sees.
LoadZip(blob) == [k \in 1..Len(blob) |-> [blob[k] EXCEPT !.compression = "default"]]

(* ---------------------------------------------------------------------- *)
(* exportToEpub                                                           *)
(* ---------------------------------------------------------------------- *)

\* A variant of AddMimetype that compresses the entry.
AddMimetype_Deflated(zip) ==
  ZipFile(zip, Chars("mimetype"), [type |-> "text", text |-> Chars("application/epub+zip")],
          "DEFLATE")

\* Step 1: zip.file('mimetype', 'application/epub+zip', {compression: "STORE"})
AddMimetype(zip) ==
  ZipFile(zip, Chars("mimetype"), [type |-> "text", text |-> Chars("application/epub+zip")],
          "STORE")

\* Step 2: zip.folder('META-INF')?.file('container.xml', ...)
AddContainer(zip) ==
  ZipFile(ZipFolder(zip, Chars("META-INF")), Chars("META-INF/container.xml"),
          [type |-> "container", fullPath |-> Chars("OEBPS/content.opf")], "default")

\* zip.folder('OEBPS')
AddOebps(zip) == ZipFolder(zip, Chars("OEBPS"))

\* The parts of the cover's data URL.
CoverParts(bookMeta) == Split(bookMeta.coverData, ",")

\* The cover is stored when data and MIME type are there and the data
\* splits in two at its comma.
HasCover(bookMeta) ==
  /\ Truthy(bookMeta.coverData)
  /\ Truthy(bookMeta.coverMimeType)
  /\ Len(CoverParts(bookMeta)) = 2

\* A variant of CoverExt that names every cover .jpg.
CoverExt_AlwaysJpg(mime) == Chars("jpg")

\* bookMeta.coverMimeType.split('/')[1] || 'jpg'
CoverExt(mime) ==
  LET parts == Split(mime, "/")
  IN  IF Len(parts) >= 2 /\ parts[2] # <<>> THEN parts[2] ELSE Chars("jpg")

\* coverFileName: '' unless the cover is stored.
CoverFileName(bookMeta) ==
  IF HasCover(bookMeta) THEN Chars("cover.") \o CoverExt(bookMeta.coverMimeType) ELSE <<>>

OebpsPath(name) == Chars("OEBPS") \o <<"/">> \o name

\* oebps.folder('images')?.file(coverFileName, base64Data, {base64: true})
AddCover(zip, bookMeta) ==
  IF HasCover(bookMeta)
    THEN ZipFile(ZipFolder(zip, OebpsPath(Chars("images"))),
                 OebpsPath(Chars("images") \o <<"/">> \o CoverFileName(bookMeta)),
                 [type |-> "base64", text |-> CoverParts(bookMeta)[2]], "default")
    ELSE zip

\* The HTML of a chapter: marked.parse, then makeXhtmlCompatible.
HtmlContent(chapter) == makeXhtmlCompatible(marked_parse(chapter.content))

\* A variant of HasTitle that takes a first heading of any level for the title.
HasTitle_AnyHeading(chapter) ==
  LET els == ParseNodes(makeXhtmlCompatible(marked_parse(chapter.content)))
  IN  /\ els # <<>>
      /\ els[1].tag \in HeadingTags
      /\ Trim(textContent(els[1])) = Trim(chapter.title)

\* tempDiv.firstElementChild is an H1 whose trimmed text is the trimmed title.
HasTitle(chapter) ==
  LET els == ParseNodes(HtmlContent(chapter))
  IN  /\ els # <<>>
      /\ els[1].tag = Chars("h1")
      /\ Trim(textContent(els[1])) = Trim(chapter.title)

\* bodyContent
BodyContent(chapter) ==
  IF HasTitle(chapter)
    THEN HtmlContent(chapter)
    ELSE Element(Chars("h1"), escapeXml(chapter.title)) \o <<"\n">> \o HtmlContent(chapter)

\* A variant of ChapterFileId that numbers the ids from 0.
ChapterFileId_ZeroBased(index) == Chars("chap") \o NumStr(index)

\* fileName and fileId of the chapter at the 0-based index.
ChapterFileName(index) == Chars("chapter_") \o NumStr(index + 1) \o Chars(".xhtml")
ChapterFileId(index) == Chars("chap") \o NumStr(index + 1)

\* The XHTML document of a chapter: the interpolated parts of the template.
ChapterXhtml(chapter) ==
  [type |-> "xhtml", title |-> escapeXml(chapter.title), body |-> BodyContent(chapter)]

\* oebps.file(fileName, xhtml)
AddChapter(zip, chapter, index) ==
  ZipFile(zip, OebpsPath(ChapterFileName(index)), ChapterXhtml(chapter), "default")

\* A variant of ChapterFile that numbers the file by the order field.
ChapterFile_ByOrder(chapter, index) ==
  [id |-> ChapterFileId(chapter.order), href |-> ChapterFileName(chapter.order),
   title |-> chapter.title]

\* The record pushed to chapterFiles.
ChapterFile(chapter, index) ==
  [id |-> ChapterFileId(index), href |-> ChapterFileName(index), title |-> chapter.title]

\* Step 4: oebps.file('style.css', ...), a fixed text; its last rule stands
\* for the whole of it.
AddStyle(zip) ==
  ZipFile(zip, OebpsPath(Chars("style.css")),
          [type |-> "text", text |-> Chars("hr { border: 0; }")], "default")

\* let coverId = 'cover-image'
coverId == Chars("cover-image")

\* manifestItems: style, ncx, the cover when one was stored, the chapters.
\* The cover's href and media-type are interpolated as they are.
ManifestItems(bookMeta, chapterFiles, coverFileName) ==
  <<[id |-> Chars("style"), href |-> Chars("style.css"), mediaType |-> Chars("text/css"),
     properties |-> Undefined],
    [id |-> Chars("ncx"), href |-> Chars("toc.ncx"),
     mediaType |-> Chars("application/x-dtbncx+xml"), properties |-> Undefined]>>
  \o (IF Truthy(coverFileName)
        THEN <<[id |-> coverId, href |-> Chars("images") \o <<"/">> \o coverFileName,
                mediaType |-> bookMeta.coverMimeType, properties |-> Chars("cover-image")]>>
        ELSE <<>>)
  \o [k \in 1..Len(chapterFiles) |->
        [id |-> chapterFiles[k].id, href |-> chapterFiles[k].href,
         mediaType |-> Chars("application/xhtml+xml"), properties |-> Undefined]]

\* coverMeta: the content attribute of <meta name="cover">, when there is one.
CoverMeta(coverFileName) == IF Truthy(coverFileName) THEN <<coverId>> ELSE <<>>

\* A variant of SpineItems that gives an empty book one itemref.
SpineItems_NeverEmpty(chapterFiles) ==
  IF chapterFiles = <<>> THEN <<Chars("chap") \o <<"1">>>>
  ELSE [k \in 1..Len(chapterFiles) |-> chapterFiles[k].id]

\* spineItems
SpineItems(chapterFiles) == [k \in 1..Len(chapterFiles) |-> chapterFiles[k].id]

\* isbnMeta
IsbnMeta(bookMeta) ==
  IF Truthy(bookMeta.isbn)
    THEN <<[id |-> Chars("isbn"), text |-> Chars("urn:isbn:") \o escapeXml(bookMeta.isbn)]>>
    ELSE <<>>

\* tagsMeta
TagsMeta(bookMeta) == [k \in 1..Len(bookMeta.tags) |-> escapeXml(bookMeta.tags[k])]

\* a || b for strings
OrElse(a, b) == IF Truthy(a) THEN a ELSE b

\* contentOpf: each field holds the texts of the elements of that name, in
\* document order.
ContentOpf(bookMeta, chapterFiles, coverFileName, uuid) ==
  [type |-> "opf",
   title |-> <<escapeXml(bookMeta.title)>>,
   creator |-> <<escapeXml(bookMeta.author)>>,
   publisher |-> <<escapeXml(OrElse(bookMeta.publisher, Chars("ZenPub")))>>,
   description |-> <<escapeXml(OrElse(bookMeta.description, <<>>))>>,
   language |-> <<Chars("zh-CN")>>,
   identifier |-> <<[id |-> Chars("BookId"), text |-> Chars("urn:uuid:") \o uuid]>>
                  \o IsbnMeta(bookMeta),
   subject |-> TagsMeta(bookMeta),
   coverMeta |-> CoverMeta(coverFileName),
   manifest |-> ManifestItems(bookMeta, chapterFiles, coverFileName),
   spine |-> SpineItems(chapterFiles)]

\* Step 5: oebps.file('content.opf', contentOpf)
AddOpf(zip, bookMeta, chapterFiles, coverFileName, uuid) ==
  ZipFile(zip, OebpsPath(Chars("content.opf")),
          ContentOpf(bookMeta, chapterFiles, coverFileName, uuid), "default")

\* navPoints
NavPoints(chapterFiles) ==
  [k \in 1..Len(chapterFiles) |->
     [id |-> Chars("navPoint-") \o NumStr(k), playOrder |-> NumStr(k),
      label |-> escapeXml(chapterFiles[k].title), src |-> chapterFiles[k].href]]

\* tocNcx
TocNcx(bookMeta, chapterFiles) ==
  [type |-> "ncx", docTitle |-> escapeXml(bookMeta.title), navPoints |-> NavPoints(chapterFiles)]

\* Step 6: oebps.file('toc.ncx', tocNcx)
AddNcx(zip, bookMeta, chapterFiles) ==
  ZipFile(zip, OebpsPath(Chars("toc.ncx")), TocNcx(bookMeta, chapterFiles), "default")

\* The characters /[a-z0-9]/i matches, and the characters of the model in
\* the range 一-龥, named by their code points.
AlnumChars ==
  {"a", "b", "c", "d", "e", "f", "g", "h", "i", "j", "k", "l", "m", "n", "o", "p", "q",
   "r", "s", "t", "u", "v", "w", "x", "y", "z",
   "A", "B", "C", "D", "E", "F", "G", "H", "I", "J", "K", "L", "M", "N", "O", "P", "Q",
   "R", "S", "T", "U", "V", "W", "X", "Y", "Z",
   "0", "1", "2", "3", "4", "5", "6", "7", "8", "9"}
CjkChars ==
  {"U+4E66", "U+7AE0", "U+672A", "U+547D", "U+540D", "U+4F5C", "U+54C1", "U+4F5A", "U+7B2C",
   "U+4E00", "U+542F", "U+7A0B", "U+8FD9", "U+5728"}

\* A variant of SanitizeChar that keeps ASCII letters and digits only.
SanitizeChar_AsciiOnly(c) == IF c \in AlnumChars THEN c ELSE "_"

\* bookMeta.title.replace(/[^a-z0-9一-龥]/gi, '_')
SanitizeChar(c) == IF c \in AlnumChars \cup CjkChars THEN c ELSE "_"
EpubFileName(bookMeta) ==
  [k \in 1..Len(bookMeta.title) |-> SanitizeChar(bookMeta.title[k])] \o Chars(".epub")

(* ---------------------------------------------------------------------- *)
(* importEpub                                                             *)
(* ---------------------------------------------------------------------- *)

\* rootfile?.getAttribute("full-path"): null is Undefined here.
ContainerOpfPath(containerFile) ==
  IF containerFile.content.type = "container" /\ containerFile.content.fullPath # Undefined
       /\ WellFormedAttr(containerFile.content.fullPath)
    THEN XmlDecode(containerFile.content.fullPath)
    ELSE Undefined

\* The OPF as the XML parser accepts it.
ManifestItemWellFormed(item) ==
  /\ WellFormedAttr(item.id)
  /\ WellFormedAttr(item.href)
  /\ WellFormedAttr(item.mediaType)
OpfMetadataWellFormed(opf) ==
  /\ \A f \in {opf.title, opf.creator, opf.publisher, opf.description, opf.language,
               opf.subject} : \A k \in 1..Len(f) : WellFormedText(f[k])
  /\ \A k \in 1..Len(opf.identifier) : WellFormedText(opf.identifier[k].text)
OpfWellFormed(opf) ==
  /\ OpfMetadataWellFormed(opf)
  /\ \A k \in 1..Len(opf.manifest) : ManifestItemWellFormed(opf.manifest[k])
  /\ \A k \in 1..Len(opf.spine) : WellFormedAttr(opf.spine[k])

\* A document in which no selector of the Reader matches: what the parser
\* returns for a file that is no OPF, and, in a browser that replaces the
\* whole document by its error report, for an OPF that is not well-formed.
EmptyOpf ==
  [type |-> "opf", title |-> <<>>, creator |-> <<>>, publisher |-> <<>>, description |-> <<>>,
   language |-> <<>>, identifier |-> <<>>, subject |-> <<>>, coverMeta |-> <<>>,
   manifest |-> <<>>, spine |-> <<>>]

\* In a browser that keeps what it parsed before the error: the metadata
\* when the error is past it, and the manifest items before the first one
\* that is not well-formed; the spine comes after the error.
PartialOpf(opf) ==
  IF ~OpfMetadataWellFormed(opf) THEN EmptyOpf
  ELSE LET bad(item) == ~ManifestItemWellFormed(item)
           k == First({p \in 1..Len(opf.manifest) : bad(opf.manifest[p])})
       IN  [opf EXCEPT !.manifest = IF k = 0 THEN @ ELSE SubSeq(@, 1, k - 1),
                       !.spine = <<>>]

\* What the two kinds of browser make of a document that is not well-formed.
ParseErrorOutcomes == {"replaced", "partial"}

\* parser.parseFromString(opfXml, "application/xml")
ParseOpf(content, outcome) ==
  IF content.type # "opf" THEN EmptyOpf
  ELSE IF OpfWellFormed(content) THEN content
  ELSE IF outcome = "partial" THEN PartialOpf(content)
  ELSE EmptyOpf

\* querySelector(name)?.textContent || fallback
FirstTextOr(texts, fallback) ==
  IF texts # <<>> /\ XmlDecode(texts[1]) # <<>> THEN XmlDecode(texts[1]) ELSE fallback

\* A sequence without its empty members: filter(Boolean)
RECURSIVE FilterTruthy(_)
FilterTruthy(seq) ==
  IF seq = <<>> THEN <<>>
  ELSE IF Head(seq) = <<>> THEN FilterTruthy(Tail(seq))
  ELSE <<Head(seq)>> \o FilterTruthy(Tail(seq))

\* The metadata record of the Reader.
ReadMetadata(opfDoc) ==
  [title |-> FirstTextOr(opfDoc.title, Chars("Untitled")),
   author |-> FirstTextOr(opfDoc.creator, Chars("Unknown")),
   description |-> FirstTextOr(opfDoc.description, <<>>),
   publisher |-> FirstTextOr(opfDoc.publisher, <<>>),
   language |-> FirstTextOr(opfDoc.language, Chars("zh-CN")),
   isbn |-> FirstTextOr([k \in 1..Len(opfDoc.identifier) |-> opfDoc.identifier[k].text], <<>>),
   tags |-> FilterTruthy([k \in 1..Len(opfDoc.subject) |-> XmlDecode(opfDoc.subject[k])])]

\* manifestItems: the items that have an id and an href, in document order;
\* a later item of the same id overrides an earlier one.
ReadManifest(opfDoc) ==
  LET item(k) == opfDoc.manifest[k]
      has(k) == Truthy(item(k).id) /\ Truthy(item(k).href)
  IN  [k \in {m \in 1..Len(opfDoc.manifest) : has(m)} |->
         [id |-> XmlDecode(item(k).id), href |-> XmlDecode(item(k).href)]]

\* manifestItems[id]: Undefined without an entry.
ManifestHref(manifestItems, id) ==
  LET hits == {k \in DOMAIN manifestItems : manifestItems[k].id = id}
  IN  IF hits = {} THEN Undefined
      ELSE manifestItems[CHOOSE k \in hits : \A m \in hits : m <= k].href

\* spineRefs: the idrefs that are not empty.
ReadSpine(opfDoc) ==
  FilterTruthy([k \in 1..Len(opfDoc.spine) |-> XmlDecode(opfDoc.spine[k])])

\* opfPath.split('/').slice(0, -1).join('/')
OpfDir(opfPath) ==
  LET parts == Split(opfPath, "/") IN Join(SubSeq(parts, 1, Len(parts) - 1), "/")

\* A variant of FullPath that takes every href from the root of the archive.
FullPath_FromRoot(opfDir, relativeHref) == relativeHref

\* fullPath
FullPath(opfDir, relativeHref) ==
  IF Truthy(opfDir) THEN opfDir \o <<"/">> \o relativeHref ELSE relativeHref

\* doc.querySelector("h1, h2"): the first element of level 1 or 2, 0 for null.
HeadingIndex(els) ==
  LET isHeading(el) == el.tag \in {Chars("h1"), Chars("h2")}
  IN  First({p \in 1..Len(els) : isHeading(els[p])})

\* title: heading?.textContent || `Chapter ${i + 1}`
ChapterTitle(els, i) ==
  LET h == HeadingIndex(els)
  IN  IF h > 0 /\ textContent(els[h]) # <<>>
        THEN textContent(els[h])
        ELSE Chars("Chapter ") \o NumStr(i + 1)

\* heading && heading.textContent && title.trim() === heading.textContent.trim()
HeadingRemoved(els, i) ==
  LET h == HeadingIndex(els)
  IN  /\ h > 0
      /\ textContent(els[h]) # <<>>
      /\ Trim(ChapterTitle(els, i)) = Trim(textContent(els[h]))

\* A variant of RemainingElements that removes no heading.
RemainingElements_All(els, i) == els

\* The elements of the body after heading.remove().
RemainingElements(els, i) ==
  LET h == HeadingIndex(els)
  IN  IF HeadingRemoved(els, i)
        THEN SubSeq(els, 1, h - 1) \o SubSeq(els, h + 1, Len(els))
        ELSE els

\* A chapter document the XHTML parser accepts.
ChapterWellFormed(content) ==
  content.type = "xhtml" => WellFormedText(content.title) /\ WellFormedXml(content.body)

\* doc.body is an element: the root is an XHTML html element with a body,
\* and either the document is well-formed or the parser keeps what it
\* built before an error that lies in the body.
HasBody(content, outcome) ==
  /\ content.type = "xhtml"
  /\ \/ ChapterWellFormed(content)
     \/ outcome = "partial" /\ WellFormedText(content.title)

\* The elements of doc.body.
BodyElements(content) ==
  IF ChapterWellFormed(content)
    THEN ParseNodes(content.body)
    ELSE ParsedBeforeError(ParseNodes(content.body))

\* crypto.randomUUID() for a chapter: an id no chapter pushed before has,
\* named here by the number of chapters pushed.
ChapterUuid(n) == Chars("id") \o NumStr(n + 1)

\* A variant of ReadChapter that numbers the chapters as they are pushed,
\* without the gaps of the entries skipped.
ReadChapter_Renumbered(content, i, n) ==
  LET els == BodyElements(content)
  IN  [id |-> ChapterUuid(n),
       title |-> ChapterTitle(els, n),
       content |-> turndown(RemainingElements(els, n)),
       order |-> n]

\* The record pushed to chapters for the spine entry at the 0-based i.
ReadChapter(content, i, n) ==
  LET els == BodyElements(content)
  IN  [id |-> ChapterUuid(n),
       title |-> ChapterTitle(els, i),
       content |-> turndown(RemainingElements(els, i)),
       order |-> i]

(* ---------------------------------------------------------------------- *)
(* exportToEpub up to its await, as one function of its arguments         *)
(* ---------------------------------------------------------------------- *)

\* chapters.forEach, from the 0-based index on
RECURSIVE AddChapters(_, _, _)
AddChapters(zip, chapters, index) ==
  IF index >= Len(chapters) THEN zip
  ELSE AddChapters(AddChapter(zip, chapters[index + 1], index), chapters, index + 1)

\* chapterFiles after the loop
ChapterFiles(chapters) == [k \in 1..Len(chapters) |-> ChapterFile(chapters[k], k - 1)]

\* zip when generateAsync is called
EpubArchive(bookMeta, chapters, uuid) ==
  LET covered == AddCover(AddOebps(AddContainer(AddMimetype(<<>>))), bookMeta)
      styled == AddStyle(AddChapters(covered, chapters, 0))
      packaged == AddOpf(styled, bookMeta, ChapterFiles(chapters), CoverFileName(bookMeta), uuid)
  IN  AddNcx(packaged, bookMeta, ChapterFiles(chapters))

(* ---------------------------------------------------------------------- *)
(* exportToMarkdown                                                       *)
(* ---------------------------------------------------------------------- *)

\* The i flag of a regular expression, for the letters of ASCII.
upperCase == Chars("ABCDEFGHIJKLMNOPQRSTUVWXYZ")
lowerCase == Chars("abcdefghijklmnopqrstuvwxyz")
upperCaseLetters == {upperCase[k] : k \in 1..Len(upperCase)}
ToLower(c) ==
  IF c \in upperCaseLetters
    THEN lowerCase[CHOOSE k \in 1..Len(upperCase) : upperCase[k] = c]
    ELSE c
Folded(s) == [k \in 1..Len(s) |-> ToLower(s[k])]

\* new RegExp(source, 'i'), for a source of literal characters, ^ . ? *,
\* groups, character classes without ranges, and \s (one member of the
\* sequence, as the template literal makes it).  A pattern is the sequence
\* of its terms, each an atom with a quantifier; a ? after a quantifier
\* makes it lazy.  ok is FALSE where the constructor throws a SyntaxError:
\* a quantifier with nothing to repeat, a group without its ")", a ")"
\* without its group, "(?" before such a character, a class without "]".
RECURSIVE ParseTerms(_, _)
ParseAtom(source) ==
  LET c == Head(source)
      after == Tail(source)
      close == First({k \in 1..Len(after) : after[k] = "]"})
      negated == close > 1 /\ after[1] = "^"
      group == ParseTerms(after, TRUE)
  IN  IF c = "(" THEN [ok |-> group.ok, atom |-> [kind |-> "group", body |-> group.terms],
                       rest |-> group.rest]
      ELSE IF c = "["
        THEN [ok |-> close > 0,
              atom |-> [kind |-> "class", negated |-> negated,
                        members |-> {ToLower(after[k]) :
                                       k \in (IF negated THEN 2 ELSE 1)..(close - 1)}],
              rest |-> SubSeq(after, close + 1, Len(after))]
      ELSE [ok |-> TRUE,
            atom |-> IF c = "." THEN [kind |-> "any"]
                     ELSE IF c = "^" THEN [kind |-> "start"]
                     ELSE IF c = "\\s" THEN [kind |-> "space"]
                     ELSE [kind |-> "char", char |-> ToLower(c)],
            rest |-> after]
ParseTerms(source, inGroup) ==
  LET thrown == [ok |-> FALSE, terms |-> <<>>, rest |-> <<>>]
      parsed == ParseAtom(source)
      quantified == parsed.rest # <<>> /\ Head(parsed.rest) \in {"?", "*"}
      afterQuantifier == IF quantified THEN Tail(parsed.rest) ELSE parsed.rest
      lazy == quantified /\ afterQuantifier # <<>> /\ Head(afterQuantifier) = "?"
      more == ParseTerms(IF lazy THEN Tail(afterQuantifier) ELSE afterQuantifier, inGroup)
  IN  IF source = <<>> THEN [ok |-> ~inGroup, terms |-> <<>>, rest |-> <<>>]
      ELSE IF Head(source) = ")" THEN [ok |-> inGroup, terms |-> <<>>, rest |-> Tail(source)]
      ELSE IF Head(source) \in {"?", "*"} \/ ~parsed.ok \/ ~more.ok THEN thrown
      ELSE [ok |-> TRUE,
            terms |-> <<[atom |-> parsed.atom,
                         quantifier |-> IF quantified THEN Head(parsed.rest) ELSE "1"]>>
                      \o more.terms,
            rest |-> more.rest]
RegExp(source) == ParseTerms(source, FALSE)

\* The positions of s at which a match of the terms that starts at one of
\* the given positions can end.
RECURSIVE MatchTerms(_, _, _), MatchStar(_, _, _)
MatchAtom(atom, s, p) ==
  LET next == IF p < Len(s) THEN ToLower(s[p + 1]) ELSE "end"
      is(accepted) == IF p < Len(s) /\ accepted THEN {p + 1} ELSE {}
  IN  IF atom.kind = "group" THEN MatchTerms(atom.body, s, {p})
      ELSE IF atom.kind = "start" THEN (IF p = 0 THEN {0} ELSE {})
      ELSE IF atom.kind = "any" THEN is(next \notin {"\n", "\r"})
      ELSE IF atom.kind = "space" THEN is(next \in WhiteSpace)
      ELSE IF atom.kind = "class" THEN is((next \in atom.members) # atom.negated)
      ELSE is(next = atom.char)
MatchStar(atom, s, reached) ==
  LET further == reached \cup UNION {MatchAtom(atom, s, p) : p \in reached}
  IN  IF further = reached THEN reached ELSE MatchStar(atom, s, further)
MatchTerms(terms, s, starts) ==
  LET term == Head(terms)
      once == UNION {MatchAtom(term.atom, s, p) : p \in starts}
      ends == IF term.quantifier = "1" THEN once
              ELSE IF term.quantifier = "?" THEN starts \cup once
              ELSE MatchStar(term.atom, s, starts)
  IN  IF terms = <<>> THEN starts ELSE MatchTerms(Tail(terms), s, ends)

\* s.match(pattern) is not null
Matches(s, pattern) == \E p \in 0..Len(s) : MatchTerms(pattern.terms, s, {p}) # {}

\* What a call returns that threw the SyntaxError of the RegExp constructor.
SyntaxError == <<"SyntaxError: Invalid regular expression">>

\* titlePattern: new RegExp(`^#\\s*${title.trim()}`, 'i')
TitlePattern(title) == RegExp(<<"^", "#", "\\s", "*">> \o Trim(title))

\* getContentWithTitle(title, content, isHtml); h1Pattern is
\* new RegExp(`^<h1[^>]*>\\s*${title.trim()}\\s*<\/h1>`, 'i')
getContentWithTitle(title, content, isHtml) ==
  LET trimmedContent == Trim(content)
      titlePattern == TitlePattern(title)
      h1Pattern == RegExp(<<"^">> \o Chars("<h1[^>]*>") \o <<"\\s", "*">> \o Trim(title)
                          \o <<"\\s", "*">> \o Chars("</h1>"))
  IN  IF ~titlePattern.ok THEN SyntaxError
      ELSE IF Matches(trimmedContent, titlePattern) THEN content
      ELSE IF isHtml
        THEN IF ~h1Pattern.ok THEN SyntaxError
             ELSE IF Matches(trimmedContent, h1Pattern) THEN content
             ELSE Element(Chars("h1"), escapeXml(title)) \o <<"\n">> \o content
      ELSE Chars("# ") \o title \o Chars("\n\n") \o content

\* fileName of the chapter at the 0-based index; the number is
\* (index + 1).toString().padStart(2, '0')
MarkdownFileName(chapter, index) ==
  Chars("chapter_") \o (IF index + 1 < 10 THEN <<"0">> ELSE <<>>) \o NumStr(index + 1) \o <<"_">>
  \o [k \in 1..Len(chapter.title) |-> SanitizeChar(chapter.title[k])] \o Chars(".md")

\* A variant of FinalContent that ends with the chapter's memo.
FinalContent_WithMemo(chapter) ==
  getContentWithTitle(chapter.title, chapter.content, FALSE) \o Chars("\n\n") \o chapter.memo

\* finalContent
FinalContent(chapter) == getContentWithTitle(chapter.title, chapter.content, FALSE)

\* combinedContent after the chapters from the 0-based index on
RECURSIVE CombinedContent(_, _, _)
CombinedContent(combined, chapters, index) ==
  IF index >= Len(chapters) THEN combined
  ELSE CombinedContent(combined \o FinalContent(chapters[index + 1]) \o Chars("\n\n---\n\n"),
                       chapters, index + 1)

\* The chapter files of the Markdown archive, from the 0-based index on
RECURSIVE AddMarkdownChapters(_, _, _)
AddMarkdownChapters(zip, chapters, index) ==
  IF index >= Len(chapters) THEN zip
  ELSE AddMarkdownChapters(
         ZipFile(zip, MarkdownFileName(chapters[index + 1], index),
                 [type |-> "text", text |-> FinalContent(chapters[index + 1])], "default"),
         chapters, index + 1)

\* zip of exportToMarkdown when generateAsync is called; metadata.json is
\* JSON.stringify(bookMeta, null, 2), which holds every field of bookMeta.
MarkdownArchive(bookMeta, chapters) ==
  LET described == ZipFile(<<>>, Chars("metadata.json"), [type |-> "json", value |-> bookMeta],
                           "default")
      description == IF bookMeta.description = Undefined THEN Chars("undefined")
                     ELSE bookMeta.description
      combinedContent ==
        Chars("# ") \o bookMeta.title \o Chars("\n\nAuthor: ") \o bookMeta.author
        \o Chars("\n\n") \o description \o Chars("\n\n---\n\n")
  IN  ZipFile(AddMarkdownChapters(described, chapters, 0), Chars("full_book.md"),
              [type |-> "text", text |-> CombinedContent(combinedContent, chapters, 0)],
              "default")

\* `${bookMeta.title}_markdown.zip`
MarkdownZipName(bookMeta) == bookMeta.title \o Chars("_markdown.zip")

(* ---------------------------------------------------------------------- *)
(* exportToPdf                                                            *)
(* ---------------------------------------------------------------------- *)

\* hasTitle of exportToPdf: the first element is an H1 or an H2 whose
\* trimmed text is the trimmed title.
PdfHasTitle(chapter) ==
  LET els == ParseNodes(marked_parse(chapter.content))
  IN  /\ els # <<>>
      /\ els[1].tag \in {Chars("h1"), Chars("h2")}
      /\ Trim(textContent(els[1])) = Trim(chapter.title)

\* bodyContent of exportToPdf: the title, as it is, in an h2 of fixed style
PdfBodyContent(chapter) ==
  IF PdfHasTitle(chapter) THEN marked_parse(chapter.content)
  ELSE Chars("<h2 style=\"border-bottom: 1px solid #ccc; padding-bottom: 10px; ")
       \o Chars("margin-bottom: 20px;\">") \o chapter.title \o Chars("</h2>")
       \o <<"\n">> \o marked_parse(chapter.content)

\* html: the interpolated parts of the title page, then those of the
\* chapters' pages
PdfHtml(bookMeta, chapters) ==
  [type |-> "html", title |-> bookMeta.title, author |-> bookMeta.author,
   publisher |-> IF Truthy(bookMeta.publisher) THEN <<bookMeta.publisher>> ELSE <<>>,
   pages |-> [k \in 1..Len(chapters) |-> PdfBodyContent(chapters[k])]]

\* opt.filename
PdfFileName(bookMeta) == bookMeta.title \o Chars(".pdf")

\* A variant of RemoveChild that removes the last child of the body.
RemoveChild_Last(children, node) == SubSeq(children, 1, Len(children) - 1)

\* document.body.removeChild(container)
RemoveChild(children, node) == SelectSeq(children, LAMBDA child : child # node)

(* ---------------------------------------------------------------------- *)
(* The inputs of the model                                                *)
(* ---------------------------------------------------------------------- *)

\* DEFAULT_METADATA and DEFAULT_CHAPTER of App.tsx; the characters outside
\* ASCII are named by their code points, and of the chapter's content the
\* heading and the first character of the text are kept.
DEFAULT_METADATA ==
  [title |-> <<"U+672A", "U+547D", "U+540D", "U+4F5C", "U+54C1">>,
   author |-> <<"U+4F5A", "U+540D">>, publisher |-> <<>>,
   description |-> <<>>, language |-> Chars("zh-CN"), tags |-> <<>>, isbn |-> Undefined,
   coverData |-> Undefined, coverMimeType |-> Undefined]
DEFAULT_CHAPTER ==
  [id |-> <<"1">>, title |-> <<"U+7B2C", "U+4E00", "U+7AE0", "U+FF1A", "U+542F", "U+7A0B">>,
   content |-> Chars("# ") \o <<"U+7B2C", "U+4E00", "U+7AE0", "U+FF1A", "U+542F", "U+7A0B">>
               \o <<"\n", "\n", "U+8FD9">>,
   memo |-> <<"U+5728">>, order |-> 0]

\* reader.result of FileReader.readAsDataURL for a file of the given type
DataUrl(mime, base64) == Chars("data:") \o mime \o Chars(";base64,") \o base64

\* The books exported: the default one; one whose every text holds the
\* five special characters, with a PNG cover; one whose cover has a MIME
\* type without subtype, whose title has punctuation, an ideograph of the
\* range 一-龥 and one below it, and whose tags are what the settings
\* dialog makes of the input "a," (split at the commas, each part trimmed);
\* one whose cover file has a MIME type with a
\* character special to XML; one whose cover file has no MIME type.
MetadataSamples ==
  {DEFAULT_METADATA,
   [title |-> Chars("&<>'\""), author |-> Chars("&<>'\""), publisher |-> Chars("&<>'\""),
    description |-> Chars("&<>'\""), language |-> Chars("zh-CN"),
    tags |-> <<Chars("&<>'\""), <<"t">>>>,
    isbn |-> Chars("9&"), coverData |-> DataUrl(Chars("image/png"), Chars("QQ")),
    coverMimeType |-> Chars("image/png")],
   [title |-> Chars("My / Book: Draft?") \o <<"U+4E66", "U+3400">>, author |-> <<"A">>,
    publisher |-> <<>>, description |-> <<"d">>,
    language |-> Chars("zh-CN"), tags |-> <<<<"a">>, <<>>>>, isbn |-> <<>>,
    coverData |-> DataUrl(Chars("image"), Chars("QQ")), coverMimeType |-> Chars("image")],
   [title |-> <<"B">>, author |-> <<"A">>, publisher |-> <<>>, description |-> <<>>,
    language |-> Chars("zh-CN"), tags |-> <<>>, isbn |-> Undefined,
    coverData |-> DataUrl(Chars("image/x&y"), Chars("QQ")), coverMimeType |-> Chars("image/x&y")],
   [title |-> <<>>, author |-> <<>>, publisher |-> <<>>, description |-> <<>>,
    language |-> Chars("zh-CN"), tags |-> <<>>, isbn |-> Undefined,
    coverData |-> DataUrl(Chars("application/octet-stream"), Chars("QQ")), coverMimeType |-> <<>>]}

\* The titles and contents of the chapters exported: the default chapter,
\* whose content starts with its title as a level-1 heading; a title
\* repeated as a level-2 heading; an empty title; a title of special
\* characters over a rule; a title the content repeats without its leading
\* blank; a content of raw HTML.
ChapterTexts ==
  {[title |-> DEFAULT_CHAPTER.title, content |-> DEFAULT_CHAPTER.content],
   [title |-> <<"A">>, content |-> Chars("## A\n\nb")],
   [title |-> <<>>, content |-> <<"b">>],
   [title |-> Chars("&<>'\""), content |-> Chars("---")],
   [title |-> Chars(" A"), content |-> Chars("# A")],
   [title |-> <<"A">>, content |-> Chars("<hr id=a>")]}

\* The chapter lists exported: at most MaxChapters chapters, ids and order
\* fields by position.
ChapterLists ==
  {[k \in 1..Len(texts) |->
      [id |-> NumStr(k), title |-> texts[k].title, content |-> texts[k].content,
       memo |-> <<"m">>, order |-> k - 1]] : texts \in SeqUpTo(ChapterTexts, MaxChapters)}

\* The values crypto.randomUUID() returns for a book.
Uuids == {Chars("u1"), Chars("u2")}

\* EPUB files that exportToEpub did not write.  The chapter documents: a
\* heading before the text, no heading, an empty heading, a heading after
\* the text, and a document whose root is no XHTML html element.
ForeignDocs ==
  {[type |-> "xhtml", title |-> <<>>,
    body |-> Element(Chars("h1"), Chars("Intro")) \o Element(Chars("p"), <<"b">>)],
   [type |-> "xhtml", title |-> <<>>, body |-> Element(Chars("p"), <<"b">>)],
   [type |-> "xhtml", title |-> <<>>,
    body |-> Element(Chars("h1"), <<>>) \o Element(Chars("p"), <<"b">>)],
   [type |-> "xhtml", title |-> <<>>,
    body |-> Element(Chars("p"), <<"x">>) \o Element(Chars("h2"), <<"T">>)],
   [type |-> "xml", root |-> Chars("svg")]}

\* No file of that name in the archive.
NoDoc == [type |-> "none"]

\* The idrefs of a foreign spine; the manifest has no item of the last id.
ForeignIdrefs == {ChapterFileId(0), ChapterFileId(1), Chars("ghost")}

\* A foreign OPF: with or without metadata (its subjects: a word, an empty
\* element and one of a single blank), a manifest of two chapter items and
\* one item without href, and the given spine.
ForeignOpf(full, spine) ==
  [EmptyOpf EXCEPT
     !.title = IF full THEN <<<<"T">>>> ELSE <<>>,
     !.creator = IF full THEN <<<<"W">>>> ELSE <<>>,
     !.subject = IF full THEN <<<<"s">>, <<>>, <<" ">>>> ELSE <<>>,
     !.manifest =
       <<[id |-> ChapterFileId(0), href |-> ChapterFileName(0),
          mediaType |-> Chars("application/xhtml+xml"), properties |-> Undefined],
         [id |-> ChapterFileId(1), href |-> ChapterFileName(1),
          mediaType |-> Chars("application/xhtml+xml"), properties |-> Undefined],
         [id |-> Chars("ncx"), href |-> Undefined,
          mediaType |-> Chars("application/x-dtbncx+xml"), properties |-> Undefined]>>,
     !.spine = spine]

\* Where the container of a foreign file points: nowhere ("missing": no
\* container; "nopath": no full-path), to the root or into OEBPS.
ForeignContainers == {"missing", "nopath", "root", "oebps"}
ForeignOpfPath(container) ==
  IF container = "root" THEN Chars("content.opf") ELSE Chars("OEBPS/content.opf")

\* The file: the entries in the order a packer wrote them.
ForeignEpub(container, withOpf, full, spine, doc1, doc2) ==
  LET path == ForeignOpfPath(container)
      at(name) == FullPath(OpfDir(path), name)
      z1 == IF container = "missing" THEN AddMimetype(<<>>)
            ELSE ZipFile(ZipFolder(AddMimetype(<<>>), Chars("META-INF")),
                         Chars("META-INF/container.xml"),
                         [type |-> "container",
                          fullPath |-> IF container = "nopath" THEN Undefined ELSE path],
                         "DEFLATE")
      z2 == IF withOpf THEN ZipFile(z1, path, ForeignOpf(full, spine), "DEFLATE") ELSE z1
      z3 == IF doc1 = NoDoc THEN z2 ELSE ZipFile(z2, at(ChapterFileName(0)), doc1, "DEFLATE")
      z4 == IF doc2 = NoDoc THEN z3 ELSE ZipFile(z3, at(ChapterFileName(1)), doc2, "DEFLATE")
  IN  GenerateBlob(z4)

\* A file whose OPF lies in OEBPS (at the root) and whose first chapter
\* document lies at the root (in OEBPS), where its href taken from the
\* root (from OEBPS) would lead; the second lies beside the OPF.
MisplacedEpub(container) ==
  LET inOebps == container = "oebps"
      doc(text) == [type |-> "xhtml", title |-> <<>>, body |-> Element(Chars("p"), text)]
      packed == ZipFile(ZipFolder(AddMimetype(<<>>), Chars("META-INF")),
                        Chars("META-INF/container.xml"),
                        [type |-> "container", fullPath |-> ForeignOpfPath(container)],
                        "DEFLATE")
      described == ZipFile(packed, ForeignOpfPath(container),
                           ForeignOpf(TRUE, <<ChapterFileId(0), ChapterFileId(1)>>), "DEFLATE")
      first == ZipFile(described,
                       IF inOebps THEN Chars("chapter_1.xhtml")
                       ELSE Chars("OEBPS/chapter_1.xhtml"),
                       doc(<<"1">>), "DEFLATE")
  IN  GenerateBlob(ZipFile(first,
                           IF inOebps THEN Chars("OEBPS/chapter_2.xhtml")
                           ELSE Chars("chapter_2.xhtml"),
                           doc(<<"2">>), "DEFLATE"))

ForeignFiles ==
  {ForeignEpub(c, FALSE, FALSE, <<>>, NoDoc, NoDoc) : c \in ForeignContainers}
  \cup {MisplacedEpub(c) : c \in {"root", "oebps"}}
  \cup {ForeignEpub(c, TRUE, FALSE, <<>>, NoDoc, NoDoc) : c \in {"missing", "nopath"}}
  \cup {ForeignEpub(c, TRUE, full, spine, doc1, doc2) :
          c \in {"root", "oebps"}, full \in BOOLEAN, spine \in SeqUpTo(ForeignIdrefs, MaxSpine),
          doc1 \in ForeignDocs \cup {NoDoc}, doc2 \in ForeignDocs \cup {NoDoc}}

(* ---------------------------------------------------------------------- *)
(* The state                                                              *)
(* ---------------------------------------------------------------------- *)

VARIABLES
  bookMeta,      \* exportToEpub: the metadata given
  chapters,      \* exportToEpub: the chapter list given
  file,          \* importEpub: the file given, <<>> before there is one
  pc,            \* the step the run is at
  zip,           \* exportToEpub: the JSZip instance
  coverFileName, \* exportToEpub
  chapterFiles,  \* exportToEpub
  index,         \* exportToEpub: the index of chapters.forEach
  downloads,     \* the files handed to downloadBlob
  parser,        \* what the browser's XML parser does with an error, once seen
  archive,       \* importEpub: zip
  opfPath,       \* importEpub
  metadata,      \* importEpub
  manifestItems, \* importEpub
  spineRefs,     \* importEpub
  i,             \* importEpub: the index of the loop over spineRefs
  readChapters,  \* importEpub: chapters
  result,        \* importEpub: the value the promise is fulfilled with
  error,         \* importEpub: the error the promise is rejected with
  calls,         \* handleExport: the calls made, each with its export
  documentBody,  \* document.body: the export containers attached to it
  htmlInput,     \* makeXhtmlCompatible: the argument
  normalized,    \* makeXhtmlCompatible: the results of applying it once, twice
  chapterTitle,  \* exportToMarkdown: the title of the chapter written
  chapterContent,\* exportToMarkdown: its content
  exported,      \* exportToMarkdown: finalContent, of the content and of finalContent
  showRestorePrompt, \* App: the restore prompt is shown
  appState,      \* App: the project and the view state in memory, by version
  isRestoring,   \* useAppCache: the state isRestoring
  isInitialized, \* useAppCache: isInitializedRef.current
  saveTimeout,   \* useAppCache: the pending timer of debouncedSave, with its state
  restoreCalls,  \* useAppCache: the calls of restoreAppState made on this page
  saveCalls,     \* useAppCache: the calls of saveAppState that wait for the cache
  clearCalls,    \* cacheService: the calls of clearCache that wait for the cache
  cache,         \* IndexedDB: the records 'current' of userState and projectData
  edits,         \* the changes of state made so far
  reloads,       \* the times the page was reloaded
  appChapters,   \* App: the state chapters
  activeChapterId,    \* App
  chapterSearchQuery, \* App
  history,       \* App
  historyPtr,    \* App
  historyTimeout,\* App: the pending timer of historyTimeoutRef, with its closure
  dragItem,      \* useDragAndDrop: dragItem.current and draggedItem
  dragOverItem,  \* useDragAndDrop: dragOverItem.current and dragOverIndex
  pointerRow,    \* the row of the sidebar the pointer is over during a drag
  nextId,        \* the chapter ids given so far, crypto.randomUUID() being fresh
  typed,         \* the contents typed or inserted so far
  lastUndo       \* the content shown before the step, when the step was an undo

vars ==
  <<bookMeta, chapters, file, pc, zip, coverFileName, chapterFiles, index, downloads, parser,
    archive, opfPath, metadata, manifestItems, spineRefs, i, readChapters, result, error,
    calls, documentBody, htmlInput, normalized, chapterTitle, chapterContent, exported,
    showRestorePrompt, appState, isRestoring, isInitialized, saveTimeout, restoreCalls,
    saveCalls, clearCalls, cache, edits, reloads, appChapters, activeChapterId,
    chapterSearchQuery, history, historyPtr, historyTimeout, dragItem, dragOverItem,
    pointerRow, nextId, typed, lastUndo>>
inputVars == <<bookMeta, chapters>>
titleVars == <<chapterTitle, chapterContent, exported>>
cacheVars ==
  <<showRestorePrompt, appState, isRestoring, isInitialized, saveTimeout, restoreCalls,
    saveCalls, clearCalls, cache, edits, reloads>>
editorVars ==
  <<appChapters, activeChapterId, chapterSearchQuery, history, historyPtr, historyTimeout,
    dragItem, dragOverItem, pointerRow, nextId, typed, lastUndo>>
appVars == <<titleVars, cacheVars, editorVars>>
handlerVars == <<calls, documentBody>>
helperVars == <<htmlInput, normalized>>
writerVars == <<zip, coverFileName, chapterFiles, index, downloads>>
readerVars ==
  <<file, parser, archive, opfPath, metadata, manifestItems, spineRefs, i, readChapters, result,
    error>>

\* The page as it is loaded: useState(true) for showRestorePrompt and for
\* isRestoring, useRef(false) for isInitializedRef, the default document.
PageLoaded ==
  /\ showRestorePrompt = TRUE
  /\ appState = [project |-> 0, view |-> 0]
  /\ isRestoring = TRUE
  /\ isInitialized = FALSE
  /\ saveTimeout = <<>>
  /\ restoreCalls = <<>>
  /\ saveCalls = <<>>
  /\ clearCalls = {}
  /\ edits = 0
  /\ reloads = 0

\* The editor after the first render and its effects: the default chapter,
\* no search, the history reset to the content of the active chapter.
EditorLoaded ==
  /\ appChapters = <<DEFAULT_CHAPTER>>
  /\ activeChapterId = DEFAULT_CHAPTER.id
  /\ chapterSearchQuery = <<>>
  /\ history = <<DEFAULT_CHAPTER.content>>
  /\ historyPtr = 0
  /\ historyTimeout = <<>>
  /\ dragItem = <<>>
  /\ dragOverItem = <<>>
  /\ pointerRow = <<>>
  /\ nextId = 1
  /\ typed = 0
  /\ lastUndo = <<>>

\* Nothing but the codec runs.
AppIdle ==
  /\ chapterTitle = <<>>
  /\ chapterContent = <<>>
  /\ exported = <<>>
  /\ PageLoaded
  /\ EditorLoaded
  /\ cache = [userState |-> <<>>, projectData |-> <<>>]

\* A run exports a book and may import the file it wrote, or imports a
\* file from elsewhere.
Init ==
  /\ AppIdle
  /\ \/ /\ bookMeta \in MetadataSamples
        /\ chapters \in ChapterLists
        /\ file = <<>>
     \/ /\ bookMeta = DEFAULT_METADATA
        /\ chapters = <<DEFAULT_CHAPTER>>
        /\ file \in {<<f>> : f \in ForeignFiles}
  /\ pc = "idle"
  /\ zip = <<>>
  /\ coverFileName = <<>>
  /\ chapterFiles = <<>>
  /\ index = 0
  /\ downloads = <<>>
  /\ parser = "unseen"
  /\ archive = <<>>
  /\ opfPath = Undefined
  /\ metadata = <<>>
  /\ manifestItems = <<>>
  /\ spineRefs = <<>>
  /\ i = 0
  /\ readChapters = <<>>
  /\ result = <<>>
  /\ error = "none"
  /\ calls = <<>>
  /\ documentBody = <<>>
  /\ htmlInput = <<>>
  /\ normalized = <<>>

(* ---------------------------------------------------------------------- *)
(* exportToEpub, step by step                                             *)
(* ---------------------------------------------------------------------- *)

\* new JSZip(), then the mimetype entry
ExportMimetype ==
  /\ pc = "idle"
  /\ file = <<>>
  /\ zip' = AddMimetype(<<>>)
  /\ pc' = "container"
  /\ UNCHANGED <<appVars, inputVars, handlerVars, helperVars, coverFileName, chapterFiles, index,
                 downloads, readerVars>>

\* META-INF/container.xml
ExportContainer ==
  /\ pc = "container"
  /\ zip' = AddContainer(zip)
  /\ pc' = "cover"
  /\ UNCHANGED <<appVars, inputVars, handlerVars, helperVars, coverFileName, chapterFiles, index,
                 downloads, readerVars>>

\* The OEBPS folder and the cover image
ExportCover ==
  /\ pc = "cover"
  /\ zip' = AddCover(AddOebps(zip), bookMeta)
  /\ coverFileName' = CoverFileName(bookMeta)
  /\ chapterFiles' = <<>>
  /\ index' = 0
  /\ pc' = "chapters"
  /\ UNCHANGED <<appVars, inputVars, handlerVars, helperVars, downloads, readerVars>>

\* One turn of chapters.forEach
ExportChapter ==
  /\ pc = "chapters"
  /\ index < Len(chapters)
  /\ zip' = AddChapter(zip, chapters[index + 1], index)
  /\ chapterFiles' = Append(chapterFiles, ChapterFile(chapters[index + 1], index))
  /\ index' = index + 1
  /\ UNCHANGED <<appVars, inputVars, handlerVars, helperVars, pc, coverFileName, downloads,
                 readerVars>>

\* style.css, after the last chapter
ExportStyle ==
  /\ pc = "chapters"
  /\ index = Len(chapters)
  /\ zip' = AddStyle(zip)
  /\ pc' = "opf"
  /\ UNCHANGED <<appVars, inputVars, handlerVars, helperVars, coverFileName, chapterFiles, index,
                 downloads, readerVars>>

\* content.opf, with a fresh uuid
ExportOpf ==
  /\ pc = "opf"
  /\ \E uuid \in Uuids : zip' = AddOpf(zip, bookMeta, chapterFiles, coverFileName, uuid)
  /\ pc' = "ncx"
  /\ UNCHANGED <<appVars, inputVars, handlerVars, helperVars, coverFileName, chapterFiles, index,
                 downloads, readerVars>>

\* toc.ncx
ExportNcx ==
  /\ pc = "ncx"
  /\ zip' = AddNcx(zip, bookMeta, chapterFiles)
  /\ pc' = "generate"
  /\ UNCHANGED <<appVars, inputVars, handlerVars, helperVars, coverFileName, chapterFiles, index,
                 downloads, readerVars>>

\* zip.generateAsync and downloadBlob
ExportDownload ==
  /\ pc = "generate"
  /\ downloads' = Append(downloads, [name |-> EpubFileName(bookMeta), blob |-> GenerateBlob(zip)])
  /\ pc' = "exported"
  /\ UNCHANGED <<appVars, inputVars, handlerVars, helperVars, zip, coverFileName, chapterFiles,
                 index, readerVars>>

(* ---------------------------------------------------------------------- *)
(* importEpub, step by step                                               *)
(* ---------------------------------------------------------------------- *)

\* What the parser does with a document: nothing to see when the document
\* is well-formed; otherwise what this browser did before, or one of the
\* two outcomes when it is the first error.
Outcomes(wellFormed) ==
  IF wellFormed \/ parser # "unseen" THEN {parser} ELSE ParseErrorOutcomes

\* JSZip.loadAsync(file), of the file given or of the file just exported
ImportLoad ==
  /\ \/ pc = "idle" /\ file # <<>>
     \/ pc = "exported"
  /\ LET given == IF pc = "exported" THEN downloads[Len(downloads)].blob ELSE file[1]
     IN  /\ file' = <<given>>
         /\ archive' = LoadZip(given)
  /\ pc' = "readContainer"
  /\ UNCHANGED <<appVars, inputVars, handlerVars, helperVars, writerVars, parser, opfPath,
                 metadata, manifestItems, spineRefs, i, readChapters, result, error>>

\* container.xml and its rootfile
ImportContainer ==
  /\ pc = "readContainer"
  /\ LET containerFile == ZipGet(archive, Chars("META-INF/container.xml"))
     IN  IF containerFile = <<>>
           THEN /\ error' = "Invalid EPUB: container.xml missing"
                /\ pc' = "failed"
                /\ UNCHANGED opfPath
         ELSE IF ~Truthy(ContainerOpfPath(containerFile[1]))
           THEN /\ error' = "Invalid EPUB: OPF path not found"
                /\ pc' = "failed"
                /\ UNCHANGED opfPath
         ELSE /\ opfPath' = ContainerOpfPath(containerFile[1])
              /\ pc' = "readOpf"
              /\ UNCHANGED error
  /\ UNCHANGED <<appVars, inputVars, handlerVars, helperVars, writerVars, file, parser, archive,
                 metadata, manifestItems, spineRefs, i, readChapters, result>>

\* The OPF: metadata, manifest and spine
ImportOpf ==
  /\ pc = "readOpf"
  /\ LET opfFile == ZipGet(archive, opfPath)
     IN  IF opfFile = <<>>
           THEN /\ error' = "Invalid EPUB: OPF file missing"
                /\ pc' = "failed"
                /\ UNCHANGED <<parser, metadata, manifestItems, spineRefs, i, readChapters>>
           ELSE \E outcome \in Outcomes(opfFile[1].content.type = "opf"
                                          => OpfWellFormed(opfFile[1].content)) :
                  LET opfDoc == ParseOpf(opfFile[1].content, outcome)
                  IN  /\ parser' = outcome
                      /\ metadata' = ReadMetadata(opfDoc)
                      /\ manifestItems' = ReadManifest(opfDoc)
                      /\ spineRefs' = ReadSpine(opfDoc)
                      /\ i' = 0
                      /\ readChapters' = <<>>
                      /\ pc' = "readChapters"
                      /\ UNCHANGED error
  /\ UNCHANGED <<appVars, inputVars, handlerVars, helperVars, writerVars, file, archive, opfPath,
                 result>>

\* One turn of the loop over spineRefs
ImportChapter ==
  /\ pc = "readChapters"
  /\ i < Len(spineRefs)
  /\ LET relativeHref == ManifestHref(manifestItems, spineRefs[i + 1])
         chapFile == IF Truthy(relativeHref)
                       THEN ZipGet(archive, FullPath(OpfDir(opfPath), relativeHref))
                       ELSE <<>>
     IN  IF chapFile = <<>>
           THEN /\ i' = i + 1
                /\ UNCHANGED <<parser, readChapters, error, pc>>
           ELSE \E outcome \in Outcomes(ChapterWellFormed(chapFile[1].content)) :
                  /\ parser' = outcome
                  /\ IF HasBody(chapFile[1].content, outcome)
                       THEN /\ readChapters' =
                                 Append(readChapters,
                                        ReadChapter(chapFile[1].content, i, Len(readChapters)))
                            /\ i' = i + 1
                            /\ UNCHANGED <<error, pc>>
                       ELSE /\ error' = "TypeError: doc.body is null"
                            /\ pc' = "failed"
                            /\ UNCHANGED <<i, readChapters>>
  /\ UNCHANGED <<appVars, inputVars, handlerVars, helperVars, writerVars, file, archive, opfPath,
                 metadata, manifestItems, spineRefs, result>>

\* return { metadata, chapters }
ImportReturn ==
  /\ pc = "readChapters"
  /\ i = Len(spineRefs)
  /\ result' = <<[metadata |-> metadata, chapters |-> readChapters]>>
  /\ pc' = "imported"
  /\ UNCHANGED <<appVars, inputVars, handlerVars, helperVars, writerVars, file, parser, archive,
                 opfPath, metadata, manifestItems, spineRefs, i, readChapters, error>>

Next ==
  \/ ExportMimetype
  \/ ExportContainer
  \/ ExportCover
  \/ ExportChapter
  \/ ExportStyle
  \/ ExportOpf
  \/ ExportNcx
  \/ ExportDownload
  \/ ImportLoad
  \/ ImportContainer
  \/ ImportOpf
  \/ ImportChapter
  \/ ImportReturn

Spec == Init /\ [][Next]_vars

(* ---------------------------------------------------------------------- *)
(* handleExport: calls of the three exports that overlap                  *)
(* ---------------------------------------------------------------------- *)

\* How many calls of handleExport a run makes.
MaxCalls == 2

\* The books exported: the default one and the one with a publisher.
ExportMetas == {m \in MetadataSamples : m.coverMimeType \in {Undefined, Chars("image/png")}}

\* The chapter lists at the time of a call: two chapters, one of them the
\* default chapter, with the memo of the default chapter or that of a new
\* chapter, and with order fields that follow the positions or run
\* against them.
ExportChapterLists ==
  LET texts == <<[title |-> <<"A">>, content |-> Chars("## A\n\nb")],
                 [title |-> DEFAULT_CHAPTER.title, content |-> DEFAULT_CHAPTER.content]>>
  IN  {[k \in 1..Len(texts) |->
          [id |-> NumStr(k), title |-> texts[k].title, content |-> texts[k].content,
           memo |-> memo, order |-> IF sorted THEN k - 1 ELSE Len(texts) - k]] :
         memo \in {DEFAULT_CHAPTER.memo, <<>>}, sorted \in BOOLEAN}

\* What the export actions leave alone.
stepVars == <<pc, zip, coverFileName, chapterFiles, index, readerVars, helperVars>>

ExportInit ==
  /\ AppIdle
  /\ bookMeta \in ExportMetas
  /\ chapters = <<DEFAULT_CHAPTER>>
  /\ file = <<>>
  /\ pc = "idle"
  /\ zip = <<>>
  /\ coverFileName = <<>>
  /\ chapterFiles = <<>>
  /\ index = 0
  /\ downloads = <<>>
  /\ parser = "unseen"
  /\ archive = <<>>
  /\ opfPath = Undefined
  /\ metadata = <<>>
  /\ manifestItems = <<>>
  /\ spineRefs = <<>>
  /\ i = 0
  /\ readChapters = <<>>
  /\ result = <<>>
  /\ error = "none"
  /\ calls = <<>>
  /\ documentBody = <<>>
  /\ htmlInput = <<>>
  /\ normalized = <<>>

\* A call of handleExport that has reached the await of its export: the
\* toast "exporting" is shown, the artifact is built and the promise of
\* the export is pending.
NewCall(format, chs, artifact) ==
  [format |-> format, chapters |-> chs, artifact |-> artifact, state |-> "pending",
   failed |-> FALSE, report |-> "exporting"]

\* handleExport('epub'): exportToEpub up to zip.generateAsync
CallExportToEpub ==
  /\ Len(calls) < MaxCalls
  /\ \E chs \in ExportChapterLists, uuid \in Uuids :
       calls' = Append(calls, NewCall("epub", chs, EpubArchive(bookMeta, chs, uuid)))
  /\ UNCHANGED <<appVars, inputVars, stepVars, downloads, documentBody>>

\* handleExport('md'): exportToMarkdown up to zip.generateAsync, or up to
\* the SyntaxError of a title pattern, which rejects the promise at once.
CallExportToMarkdown ==
  /\ Len(calls) < MaxCalls
  /\ \E chs \in ExportChapterLists :
       LET thrown == \E k \in 1..Len(chs) : FinalContent(chs[k]) = SyntaxError
       IN  calls' =
             Append(calls,
                    IF thrown
                      THEN [NewCall("md", chs, <<>>) EXCEPT !.state = "rejected",
                                                            !.failed = TRUE, !.report = "error"]
                      ELSE NewCall("md", chs, MarkdownArchive(bookMeta, chs)))
  /\ UNCHANGED <<appVars, inputVars, stepVars, downloads, documentBody>>

\* handleExport('pdf'): exportToPdf up to html2pdf()...save(); the
\* container is the node this call created, named by the call's number.
CallExportToPdf ==
  /\ Len(calls) < MaxCalls
  /\ \E chs \in ExportChapterLists :
       calls' = Append(calls, NewCall("pdf", chs, PdfHtml(bookMeta, chs)))
  /\ documentBody' = Append(documentBody, Len(calls) + 1)
  /\ UNCHANGED <<appVars, inputVars, stepVars, downloads>>

\* generateAsync is fulfilled: downloadBlob, the export returns and
\* handleExport shows "success".
ArchiveGenerated ==
  /\ \E c \in 1..Len(calls) :
       /\ calls[c].state = "pending"
       /\ calls[c].format \in {"epub", "md"}
       /\ downloads' =
            Append(downloads,
                   [name |-> IF calls[c].format = "epub" THEN EpubFileName(bookMeta)
                             ELSE MarkdownZipName(bookMeta),
                    blob |-> GenerateBlob(calls[c].artifact)])
       /\ calls' = [calls EXCEPT ![c].state = "resolved", ![c].report = "success"]
  /\ UNCHANGED <<appVars, inputVars, stepVars, documentBody>>

\* generateAsync is rejected: the await throws out of the export, and
\* handleExport shows "failed".
ArchiveFails ==
  /\ \E c \in 1..Len(calls) :
       /\ calls[c].state = "pending"
       /\ calls[c].format \in {"epub", "md"}
       /\ calls' = [calls EXCEPT ![c].state = "rejected", ![c].failed = TRUE,
                                 ![c].report = "error"]
  /\ UNCHANGED <<appVars, inputVars, stepVars, downloads, documentBody>>

\* finally { document.body.removeChild(container) }, and what handleExport
\* shows then: removeChild throws when the container is no child of the
\* body, and otherwise exportToPdf returns.
Finally(c, failed) ==
  IF \E k \in 1..Len(documentBody) : documentBody[k] = c
    THEN /\ documentBody' = RemoveChild(documentBody, c)
         /\ calls' = [calls EXCEPT ![c].state = "resolved", ![c].failed = failed,
                                   ![c].report = "success"]
    ELSE /\ UNCHANGED documentBody
         /\ calls' = [calls EXCEPT ![c].state = "rejected", ![c].failed = failed,
                                   ![c].report = "error"]

\* html2pdf()...save() is fulfilled: the file, a rendering of the one
\* container, is saved under opt.filename.
PdfSaved ==
  /\ \E c \in 1..Len(calls) :
       /\ calls[c].state = "pending"
       /\ calls[c].format = "pdf"
       /\ downloads' = Append(downloads, [name |-> PdfFileName(bookMeta),
                                          blob |-> <<calls[c].artifact>>])
       /\ Finally(c, FALSE)
  /\ UNCHANGED <<appVars, inputVars, stepVars>>

\* html2pdf()...save() is rejected: catch logs the error and alerts.
PdfFails ==
  /\ \E c \in 1..Len(calls) :
       /\ calls[c].state = "pending"
       /\ calls[c].format = "pdf"
       /\ Finally(c, TRUE)
  /\ UNCHANGED <<appVars, inputVars, stepVars, downloads>>

ExportNext ==
  \/ CallExportToEpub
  \/ CallExportToMarkdown
  \/ CallExportToPdf
  \/ ArchiveGenerated
  \/ ArchiveFails
  \/ PdfSaved
  \/ PdfFails

ExportSpec == ExportInit /\ [][ExportNext]_vars

(* ---------------------------------------------------------------------- *)
(* makeXhtmlCompatible on its own                                         *)
(* ---------------------------------------------------------------------- *)

\* How many pieces an HTML string of the model is made of.
MaxFragments == 2

\* The pieces: the three void tags bare, with attributes, with a name in
\* capitals, self-closing with and without a blank, and text.
HtmlFragments ==
  {Chars("<hr>"), Chars("<br>"), Chars("<img>"), Chars("<HR>"),
   Chars("<hr id=a>"), Chars("<br clear=all>"), Chars("<img src=a>"),
   Chars("<hr />"), Chars("<br/>"), Chars("<img src=a/>"), Chars("<img src=a />"),
   Chars("<p>x</p>")}

\* The strings given to makeXhtmlCompatible: the pieces, one after another.
RECURSIVE Concat(_)
Concat(pieces) == IF pieces = <<>> THEN <<>> ELSE Head(pieces) \o Concat(Tail(pieces))
HtmlStrings == {Concat(pieces) : pieces \in SeqUpTo(HtmlFragments, MaxFragments)}

NormalizeInit ==
  /\ AppIdle
  /\ htmlInput \in HtmlStrings
  /\ normalized = <<>>
  /\ bookMeta = DEFAULT_METADATA
  /\ chapters = <<DEFAULT_CHAPTER>>
  /\ file = <<>>
  /\ pc = "idle"
  /\ zip = <<>>
  /\ coverFileName = <<>>
  /\ chapterFiles = <<>>
  /\ index = 0
  /\ downloads = <<>>
  /\ parser = "unseen"
  /\ archive = <<>>
  /\ opfPath = Undefined
  /\ metadata = <<>>
  /\ manifestItems = <<>>
  /\ spineRefs = <<>>
  /\ i = 0
  /\ readChapters = <<>>
  /\ result = <<>>
  /\ error = "none"
  /\ calls = <<>>
  /\ documentBody = <<>>

\* makeXhtmlCompatible of the string, and makeXhtmlCompatible of its result
Normalize ==
  /\ Len(normalized) < 2
  /\ normalized' =
       Append(normalized,
              makeXhtmlCompatible(IF normalized = <<>> THEN htmlInput ELSE normalized[1]))
  /\ UNCHANGED <<appVars, inputVars, handlerVars, htmlInput, pc, zip, coverFileName, chapterFiles,
                 index, downloads, readerVars>>

NormalizeSpec == NormalizeInit /\ [][Normalize]_vars

(* ---------------------------------------------------------------------- *)
(* exportToMarkdown's finalContent on its own                             *)
(* ---------------------------------------------------------------------- *)

\* The codec at rest, for the runs of the other parts of the program.
CodecIdle ==
  /\ bookMeta = DEFAULT_METADATA
  /\ chapters = <<DEFAULT_CHAPTER>>
  /\ file = <<>>
  /\ pc = "idle"
  /\ zip = <<>>
  /\ coverFileName = <<>>
  /\ chapterFiles = <<>>
  /\ index = 0
  /\ downloads = <<>>
  /\ parser = "unseen"
  /\ archive = <<>>
  /\ opfPath = Undefined
  /\ metadata = <<>>
  /\ manifestItems = <<>>
  /\ spineRefs = <<>>
  /\ i = 0
  /\ readChapters = <<>>
  /\ result = <<>>
  /\ error = "none"
  /\ calls = <<>>
  /\ documentBody = <<>>
  /\ htmlInput = <<>>
  /\ normalized = <<>>
codecVars == <<inputVars, handlerVars, helperVars, writerVars, readerVars, pc>>
otherVars == <<codecVars, titleVars, editorVars>>

\* The chapter titles: plain ones, one with a blank before it, and titles
\* with characters special to regular expressions.
MarkdownTitles ==
  {<<"A">>, Chars("Ab"), Chars(" A"), Chars("a.b"), Chars("Why?"), Chars("a(b)"), Chars("a*"),
   <<"(">>, <<")">>, <<"[">>, <<"*">>, <<"?">>}

\* The contents: a text, and, for every title, the title as a heading
\* with and without a blank after the #, in the other case of its letters,
\* after a blank line, and with text after it.
MarkdownContents ==
  {<<>>, <<"x">>, Chars("# axb"), Chars("# Wh"), Chars("# ab"), Chars("# ")}
  \cup {before \o title \o after :
          before \in {Chars("# "), <<"#">>, Chars("\n# ")},
          title \in MarkdownTitles \cup {Chars("AB")}, after \in {<<>>, Chars("\n\nx")}}

TitleInit ==
  /\ CodecIdle
  /\ PageLoaded
  /\ EditorLoaded
  /\ cache = [userState |-> <<>>, projectData |-> <<>>]
  /\ chapterTitle \in MarkdownTitles
  /\ chapterContent \in MarkdownContents
  /\ exported = <<>>

\* finalContent of the chapter, and finalContent of a chapter whose content
\* is that finalContent; a SyntaxError ends exportToMarkdown.
ExportChapterMarkdown ==
  /\ Len(exported) < 2
  /\ exported # <<SyntaxError>>
  /\ exported' =
       Append(exported,
              FinalContent([title |-> chapterTitle,
                            content |-> IF exported = <<>> THEN chapterContent
                                        ELSE exported[1]]))
  /\ UNCHANGED <<codecVars, cacheVars, editorVars, chapterTitle, chapterContent>>

TitleSpec == TitleInit /\ [][ExportChapterMarkdown]_vars

(* ---------------------------------------------------------------------- *)
(* The editor of App: chapters, undo history, drag and drop               *)
(* ---------------------------------------------------------------------- *)

MaxEditorChapters == 3
MaxIds == 3
MaxTyped == 3

\* String.prototype.includes
includes(s, sub) == \E k \in 0..(Len(s) - Len(sub)) : SubSeq(s, k + 1, k + Len(sub)) = sub

\* The queries typed into the search of the sidebar: none, one that the
\* titles of added chapters contain, one that all titles contain.
SearchQueries == {<<>>, <<"U+65B0">>, <<"U+7AE0">>}

\* filteredChapters, for the given list
FilteredOf(list) ==
  IF Trim(chapterSearchQuery) = <<>> THEN list
  ELSE LET query == Folded(chapterSearchQuery)
       IN  SelectSeq(list, LAMBDA c : includes(Folded(c.title), query))

filteredChapters == FilteredOf(appChapters)

\* chapters.find(c => c.id === activeChapterId) || chapters[0]
ActiveOf(list, id) ==
  IF \E k \in 1..Len(list) : list[k].id = id
    THEN list[CHOOSE k \in 1..Len(list) :
                /\ list[k].id = id
                /\ \A j \in 1..(k - 1) : list[j].id # id]
  ELSE IF list # <<>> THEN list[1]
  ELSE Undefined

activeChapter == ActiveOf(appChapters, activeChapterId)

\* The component renders: activeChapter.content throws for an empty list,
\* and nothing handles the error, so React unmounts the application.
Mounted == appChapters # <<>>

\* The page takes the user's input: it is mounted, the prompt, an overlay
\* over the page, is closed, and no drag is under way.
Usable == Mounted /\ ~showRestorePrompt /\ dragItem = <<>>

\* updateChapterContent(newContent)
updateChapterContent(newContent) ==
  [k \in 1..Len(appChapters) |->
     IF appChapters[k].id = activeChapterId
       THEN [appChapters[k] EXCEPT !.content = newContent]
       ELSE appChapters[k]]

\* prev.slice(0, end), end not negative
Slice(prev, end) == SubSeq(prev, 1, IF end < Len(prev) THEN end ELSE Len(prev))

\* history[ptr], ptr counted from 0 as in the code
HistoryAt(ptr) == IF ptr >= 0 /\ ptr < Len(history) THEN history[ptr + 1] ELSE Undefined

\* The effect of lines 304-309 after a render with the given chapters,
\* active id, and history as the handler set it: it runs when the id
\* changed (and the render succeeded).
HistoryEffect(list, id, historyNow, ptrNow, timeoutNow) ==
  IF id # activeChapterId /\ list # <<>>
    THEN /\ history' = <<ActiveOf(list, id).content>>
         /\ historyPtr' = 0
         /\ historyTimeout' = <<>>
    ELSE /\ history' = historyNow
         /\ historyPtr' = ptrNow
         /\ historyTimeout' = timeoutNow

\* The content typed or inserted next.
NewContent == Chars("t") \o NumStr(typed + 1)

\* The chapter addChapter makes.
NewChapter ==
  [id |-> Chars("id") \o NumStr(nextId),
   title |-> <<"U+65B0", "U+7AE0", "U+8282", " ">> \o NumStr(Len(appChapters) + 1),
   content |-> Chars("# ") \o <<"U+7B2C", " ">> \o NumStr(Len(appChapters) + 1)
               \o <<" ", "U+7AE0", "\n", "\n">>,
   memo |-> <<>>,
   order |-> Len(appChapters)]

addChapter ==
  /\ Usable
  /\ Len(appChapters) < MaxEditorChapters
  /\ nextId <= MaxIds
  /\ appChapters' = Append(appChapters, NewChapter)
  /\ activeChapterId' = NewChapter.id
  /\ chapterSearchQuery' = <<>>
  /\ nextId' = nextId + 1
  /\ HistoryEffect(appChapters', NewChapter.id, history, historyPtr, historyTimeout)
  /\ lastUndo' = <<>>
  /\ UNCHANGED <<codecVars, titleVars, cacheVars, dragItem, dragOverItem, pointerRow, typed>>

\* deleteChapter from the button of a row, the confirm accepted.
deleteChapter(id) ==
  /\ Usable
  /\ \E k \in 1..Len(filteredChapters) : filteredChapters[k].id = id
  /\ Len(appChapters) > 1
  /\ LET newChapters == SelectSeq(appChapters, LAMBDA c : c.id # id)
     IN  /\ appChapters' = newChapters
         /\ activeChapterId' = IF activeChapterId = id THEN newChapters[1].id
                               ELSE activeChapterId
         /\ HistoryEffect(newChapters, activeChapterId', history, historyPtr, historyTimeout)
  /\ lastUndo' = <<>>
  /\ UNCHANGED <<codecVars, titleVars, cacheVars, chapterSearchQuery, dragItem, dragOverItem,
                 pointerRow, nextId, typed>>

\* The click on a row of the sidebar.
SelectChapter(id) ==
  /\ Usable
  /\ \E k \in 1..Len(filteredChapters) : filteredChapters[k].id = id
  /\ id # activeChapterId
  /\ activeChapterId' = id
  /\ HistoryEffect(appChapters, id, history, historyPtr, historyTimeout)
  /\ lastUndo' = <<>>
  /\ UNCHANGED <<codecVars, titleVars, cacheVars, appChapters, chapterSearchQuery, dragItem,
                 dragOverItem, pointerRow, nextId, typed>>

\* The search of the sidebar is changed.
SetChapterSearchQuery(query) ==
  /\ Usable
  /\ query # chapterSearchQuery
  /\ chapterSearchQuery' = query
  /\ UNCHANGED <<codecVars, titleVars, cacheVars, appChapters, activeChapterId, history,
                 historyPtr, historyTimeout, dragItem, dragOverItem, pointerRow, nextId, typed,
                 lastUndo>>

\* handleContentInput: the content is set and the push to the history is
\* put off by 600 ms, with historyPtr as this render has it.
handleContentInput ==
  /\ Mounted
  /\ ~showRestorePrompt
  /\ typed < MaxTyped
  /\ appChapters' = updateChapterContent(NewContent)
  /\ historyTimeout' = <<[historyPtr |-> historyPtr, newContent |-> NewContent]>>
  /\ typed' = typed + 1
  /\ lastUndo' = <<>>
  /\ UNCHANGED <<codecVars, titleVars, cacheVars, activeChapterId, chapterSearchQuery, history,
                 historyPtr, dragItem, dragOverItem, pointerRow, nextId>>

\* The timer of historyTimeoutRef fires.
HistoryTimerFires ==
  /\ historyTimeout # <<>>
  /\ history' = Append(Slice(history, historyTimeout[1].historyPtr + 1),
                       historyTimeout[1].newContent)
  /\ historyPtr' = historyPtr + 1
  /\ historyTimeout' = <<>>
  /\ UNCHANGED <<codecVars, titleVars, cacheVars, appChapters, activeChapterId,
                 chapterSearchQuery, dragItem, dragOverItem, pointerRow, nextId, typed, lastUndo>>

\* insertSyntax: the content is set and pushed to the history at once.
insertSyntax ==
  /\ Mounted
  /\ ~showRestorePrompt
  /\ typed < MaxTyped
  /\ appChapters' = updateChapterContent(NewContent)
  /\ history' = Append(Slice(history, historyPtr + 1), NewContent)
  /\ historyPtr' = historyPtr + 1
  /\ typed' = typed + 1
  /\ lastUndo' = <<>>
  /\ UNCHANGED <<codecVars, titleVars, cacheVars, activeChapterId, chapterSearchQuery,
                 historyTimeout, dragItem, dragOverItem, pointerRow, nextId>>

handleUndo ==
  /\ Mounted
  /\ ~showRestorePrompt
  /\ historyPtr > 0
  /\ historyPtr' = historyPtr - 1
  /\ appChapters' = updateChapterContent(HistoryAt(historyPtr - 1))
  /\ lastUndo' = <<activeChapter.content>>
  /\ UNCHANGED <<codecVars, titleVars, cacheVars, activeChapterId, chapterSearchQuery, history,
                 historyTimeout, dragItem, dragOverItem, pointerRow, nextId, typed>>

handleRedo ==
  /\ Mounted
  /\ ~showRestorePrompt
  /\ historyPtr < Len(history) - 1
  /\ historyPtr' = historyPtr + 1
  /\ appChapters' = updateChapterContent(HistoryAt(historyPtr + 1))
  /\ lastUndo' = <<>>
  /\ UNCHANGED <<codecVars, titleVars, cacheVars, activeChapterId, chapterSearchQuery, history,
                 historyTimeout, dragItem, dragOverItem, pointerRow, nextId, typed>>

\* handleResetApp, the confirm accepted.
handleResetApp ==
  /\ Usable
  /\ appChapters' = <<DEFAULT_CHAPTER>>
  /\ activeChapterId' = DEFAULT_CHAPTER.id
  /\ HistoryEffect(appChapters', DEFAULT_CHAPTER.id, <<>>, -1, historyTimeout)
  /\ lastUndo' = <<>>
  /\ UNCHANGED <<codecVars, titleVars, cacheVars, chapterSearchQuery, dragItem, dragOverItem,
                 pointerRow, nextId, typed>>

\* What an earlier session may have stored: a list of one or of two
\* chapters, and the id of one of the two as the active chapter.
StoredChapter(n) ==
  [id |-> Chars("s") \o NumStr(n), title |-> Chars("S") \o NumStr(n),
   content |-> Chars("# S") \o NumStr(n), memo |-> <<>>, order |-> n - 1]
StoredLists == {<<StoredChapter(1)>>, <<StoredChapter(1), StoredChapter(2)>>}
StoredIds == {StoredChapter(1).id, StoredChapter(2).id}

\* What importEpub is fulfilled with: no chapter (an EPUB without spine
\* entry that has a file), one chapter, two chapters, with fresh ids.
ImportedChapter(n, k) ==
  [id |-> Chars("id") \o NumStr(nextId + k), title |-> Chars("Chapter ") \o NumStr(k + 1),
   content |-> Chars("c") \o NumStr(k + 1), order |-> k]
ImportedLists == {[k \in 1..n |-> ImportedChapter(n, k - 1)] : n \in 0..2}

\* handleImportEpub, importEpub fulfilled with the given chapters; the
\* button that opens the file dialog lies under the prompt while it shows.
handleImportEpub(imported) ==
  /\ Usable
  /\ nextId + Len(imported) <= MaxIds + 1
  /\ appChapters' = imported
  /\ activeChapterId' = IF Len(imported) > 0 THEN imported[1].id ELSE activeChapterId
  /\ nextId' = nextId + Len(imported)
  /\ showRestorePrompt' = FALSE
  /\ HistoryEffect(imported, activeChapterId', history, historyPtr, historyTimeout)
  /\ lastUndo' = <<>>
  /\ UNCHANGED <<codecVars, titleVars, appState, isRestoring, isInitialized, saveTimeout,
                 restoreCalls, saveCalls, clearCalls, cache, edits, reloads, chapterSearchQuery,
                 dragItem, dragOverItem, pointerRow, typed>>

\* newChapters of the callback given to useDragAndDrop: splice(fromIndex,
\* 1) and splice(toIndex, 0, movedChapter) on a copy of chapters, then the
\* order of each set to its index.  The indices count from 0.
Spliced(list, fromIndex, toIndex) ==
  LET movedChapter == list[fromIndex + 1]
      without == SubSeq(list, 1, fromIndex) \o SubSeq(list, fromIndex + 2, Len(list))
      at == IF toIndex < Len(without) THEN toIndex ELSE Len(without)
  IN  SubSeq(without, 1, at) \o <<movedChapter>> \o SubSeq(without, at + 1, Len(without))

reorderedChapters(list, fromIndex, toIndex) ==
  LET newChapters == Spliced(list, fromIndex, toIndex)
  IN  [k \in 1..Len(newChapters) |-> [newChapters[k] EXCEPT !.order = k - 1]]

\* handleDragStart on the row idx (from 0) of the sidebar, where the
\* pointer is.
handleDragStart(idx) ==
  /\ Usable
  /\ idx < Len(filteredChapters)
  /\ dragItem' = <<[index |-> idx, id |-> filteredChapters[idx + 1].id]>>
  /\ pointerRow' = <<idx>>
  /\ UNCHANGED <<codecVars, titleVars, cacheVars, appChapters, activeChapterId,
                 chapterSearchQuery, history, historyPtr, historyTimeout, dragOverItem, nextId,
                 typed, lastUndo>>

\* handleDragEnter on the row idx: the pointer comes onto the row, or,
\* inside it, onto its number, title or button.
handleDragEnter(idx) ==
  /\ Mounted
  /\ dragItem # <<>>
  /\ idx < Len(filteredChapters)
  /\ dragOverItem # <<idx>> \/ pointerRow # <<idx>>
  /\ dragOverItem' = <<idx>>
  /\ pointerRow' = <<idx>>
  /\ UNCHANGED <<codecVars, titleVars, cacheVars, appChapters, activeChapterId,
                 chapterSearchQuery, history, historyPtr, historyTimeout, dragItem, nextId,
                 typed, lastUndo>>

\* handleDragLeave with the row itself as target of the event: the pointer
\* has passed from the row (not from what it contains) to another row, to
\* what the row contains, or out of the list.  It is fired after the
\* dragenter of where the pointer has come.
handleDragLeave ==
  /\ Mounted
  /\ dragItem # <<>>
  /\ dragOverItem # <<>>
  /\ dragOverItem' = <<>>
  /\ pointerRow' \in {pointerRow, <<>>}
  /\ UNCHANGED <<codecVars, titleVars, cacheVars, appChapters, activeChapterId,
                 chapterSearchQuery, history, historyPtr, historyTimeout, dragItem, nextId,
                 typed, lastUndo>>

\* handleDrop on the row idx, where the pointer is: onReorder is called
\* with the two refs, which are indices of the rows shown, and reorders
\* chapters by them; then the drag state is reset.
handleDrop(idx) ==
  /\ Mounted
  /\ dragItem # <<>>
  /\ pointerRow = <<idx>>
  /\ LET dragIndex == dragItem[1].index
         reorders == dragOverItem # <<>> /\ dragIndex # dragOverItem[1]
     IN  /\ appChapters' = IF reorders
                             THEN reorderedChapters(appChapters, dragIndex, dragOverItem[1])
                             ELSE appChapters
         /\ lastUndo' = IF reorders THEN <<>> ELSE lastUndo
  /\ dragItem' = <<>>
  /\ dragOverItem' = <<>>
  /\ pointerRow' = <<>>
  /\ UNCHANGED <<codecVars, titleVars, cacheVars, activeChapterId, chapterSearchQuery, history,
                 historyPtr, historyTimeout, nextId, typed>>

\* handleDragEnd: the drag ends without a drop on a row.
handleDragEnd ==
  /\ Mounted
  /\ dragItem # <<>>
  /\ dragItem' = <<>>
  /\ dragOverItem' = <<>>
  /\ pointerRow' = <<>>
  /\ UNCHANGED <<codecVars, titleVars, cacheVars, appChapters, activeChapterId,
                 chapterSearchQuery, history, historyPtr, historyTimeout, nextId, typed,
                 lastUndo>>

(* ---------------------------------------------------------------------- *)
(* useAppCache, cacheService and the restore prompt of App                *)
(* ---------------------------------------------------------------------- *)

\* The project (metadata, chapters) and the view state (active chapter,
\* view mode, theme, widths, preview) in memory are named by versions: 0
\* the defaults of App, 1 what an earlier session stored, 2 and more what
\* the changes of this run make.  A record of the cache holds the version
\* it stores and the page that wrote it, -1 for the earlier session.
MaxEdits == 2
MaxReloads == 1
MaxSaves == 1

\* What IndexedDB may hold when the page is loaded: nothing, both records,
\* a user state without active chapter id, the project alone.
StoredCaches ==
  LET user(id) == <<[view |-> 1, activeChapterId |-> id, page |-> -1]>>
      project == <<[project |-> 1, page |-> -1]>>
  IN  {[userState |-> <<>>, projectData |-> <<>>],
       [userState |-> user(TRUE), projectData |-> project],
       [userState |-> user(FALSE), projectData |-> project],
       [userState |-> <<>>, projectData |-> project]}

CacheInit ==
  /\ CodecIdle
  /\ chapterTitle = <<>>
  /\ chapterContent = <<>>
  /\ exported = <<>>
  /\ PageLoaded
  /\ EditorLoaded
  /\ cache \in StoredCaches

\* A call of restoreAppState waits for the reads of the cache.
Reading == \E c \in 1..Len(restoreCalls) : restoreCalls[c].reads = "pending"

\* The effect on the tracked state (lines 260-277) after a render: when
\* a dependency changed and the guard holds, debouncedSave replaces the
\* pending timer by one that saves the state of this render.
Rendered(changed, restoringNow, initializedNow, stateNow) ==
  IF changed /\ ~restoringNow /\ initializedNow THEN <<stateNow>> ELSE saveTimeout

\* saveCalls after saveAppState() of the render that had the given state:
\* nothing before the initialization; otherwise saveUserState is called.
SaveAppState(state) ==
  IF ~isInitialized THEN saveCalls
  ELSE Append(saveCalls,
              [state |-> state, phase |-> "userState", page |-> reloads, reading |-> Reading])

\* handleRestoreState calls restoreAppState, which runs up to its await:
\* setIsRestoring(true), the timeout of 5 s, the two reads.  The buttons of
\* the prompt are disabled from then on.
RestoreAppState ==
  /\ showRestorePrompt
  /\ restoreCalls = <<>>
  /\ isRestoring' = TRUE
  /\ restoreCalls' = <<[reads |-> "pending", timeout |-> TRUE, settle |-> FALSE,
                        stored |-> cache]>>
  /\ UNCHANGED <<otherVars, showRestorePrompt, appState, isInitialized, saveTimeout,
                 saveCalls, clearCalls, cache, edits, reloads>>

\* Promise.all of the reads is fulfilled, each read with the record of the
\* cache or, after an error or without a record, with null; restoreAppState
\* runs to its end: lines 155-211.  Of a record the cache model keeps the
\* version; the chapters and the active id it holds are drawn here.
CacheReadsAnswer ==
  \E c \in 1..Len(restoreCalls), userFails \in BOOLEAN, projectFails \in BOOLEAN,
     storedChapters \in StoredLists, storedId \in StoredIds :
    /\ restoreCalls[c].reads = "pending"
    /\ LET userState == IF userFails THEN <<>> ELSE cache.userState
           projectData == IF projectFails THEN <<>> ELSE cache.projectData
           restoresProject == projectData # <<>>
           restoresUser == userState # <<>> /\ userState[1].activeChapterId
           stateNow ==
             [project |-> IF restoresProject THEN projectData[1].project ELSE appState.project,
              view |-> IF restoresUser THEN userState[1].view ELSE appState.view]
           restoringNow == restoresUser /\ isRestoring
           initializedNow == ~restoresUser \/ isInitialized
       IN  /\ appState' = stateNow
           /\ appChapters' = IF restoresProject THEN storedChapters ELSE appChapters
           /\ activeChapterId' = IF restoresUser THEN storedId ELSE activeChapterId
           /\ HistoryEffect(appChapters', activeChapterId', history, historyPtr,
                             historyTimeout)
           /\ isRestoring' = restoringNow
           /\ isInitialized' = initializedNow
           /\ restoreCalls' =
                [restoreCalls EXCEPT ![c].reads = "answered",
                                     ![c].timeout = restoresUser /\ @,
                                     ![c].settle = restoresUser]
           /\ saveTimeout' =
                Rendered(restoresProject \/ stateNow # appState \/ restoringNow # isRestoring,
                         restoringNow, initializedNow, stateNow)
    /\ UNCHANGED <<codecVars, titleVars, showRestorePrompt, saveCalls, clearCalls, cache, edits,
                   reloads, chapterSearchQuery, dragItem, dragOverItem, pointerRow, nextId,
                   typed, lastUndo>>

\* A variant of RestorationTimeout that only logs.
RestorationTimeout_LogsOnly ==
  \E c \in 1..Len(restoreCalls) :
    /\ restoreCalls[c].timeout
    /\ restoreCalls' = [restoreCalls EXCEPT ![c].timeout = FALSE]
    /\ UNCHANGED <<otherVars, showRestorePrompt, appState, isRestoring, isInitialized,
                   saveTimeout, saveCalls, clearCalls, cache, edits, reloads>>

\* restorationTimeout fires, 5 s after the call: lines 137-141.
RestorationTimeout ==
  \E c \in 1..Len(restoreCalls) :
    /\ restoreCalls[c].timeout
    /\ restoreCalls' = [restoreCalls EXCEPT ![c].timeout = FALSE]
    /\ isRestoring' = FALSE
    /\ isInitialized' = TRUE
    /\ saveTimeout' = Rendered(isRestoring, FALSE, TRUE, appState)
    /\ UNCHANGED <<otherVars, showRestorePrompt, appState, saveCalls, clearCalls,
                   cache, edits, reloads>>

\* The timer of 100 ms that restores scroll and cursor fires: lines 178-204.
RestoreSettled ==
  \E c \in 1..Len(restoreCalls) :
    /\ restoreCalls[c].settle
    /\ restoreCalls' = [restoreCalls EXCEPT ![c].settle = FALSE, ![c].timeout = FALSE]
    /\ isRestoring' = FALSE
    /\ isInitialized' = TRUE
    /\ saveTimeout' = Rendered(isRestoring, FALSE, TRUE, appState)
    /\ UNCHANGED <<otherVars, showRestorePrompt, appState, saveCalls, clearCalls,
                   cache, edits, reloads>>

\* handleRestoreState after its await of restoreState(): its loop waits
\* 10 times 200 ms, isRestoring being the true of the render that made the
\* handler, so the timer of 100 ms has fired, and the prompt closes.
RestoreStateDone ==
  /\ showRestorePrompt
  /\ \E c \in 1..Len(restoreCalls) :
       restoreCalls[c].reads = "answered" /\ ~restoreCalls[c].settle
  /\ showRestorePrompt' = FALSE
  /\ UNCHANGED <<otherVars, appState, isRestoring, isInitialized, saveTimeout,
                 restoreCalls, saveCalls, clearCalls, cache, edits, reloads>>

\* handleNewDocument: the prompt closes, the state is reset to the
\* defaults and cacheService.clearCache() is called; restoreAppState is not.
HandleNewDocument ==
  /\ showRestorePrompt
  /\ restoreCalls = <<>>
  /\ showRestorePrompt' = FALSE
  /\ appState' = [project |-> 0, view |-> 0]
  /\ clearCalls' = clearCalls \cup {"app"}
  /\ appChapters' = <<DEFAULT_CHAPTER>>
  /\ activeChapterId' = DEFAULT_CHAPTER.id
  /\ HistoryEffect(appChapters', activeChapterId', history, historyPtr, historyTimeout)
  /\ saveTimeout' = Rendered(appState' # appState, isRestoring, isInitialized, appState')
  /\ UNCHANGED <<codecVars, titleVars, isRestoring, isInitialized, restoreCalls, saveCalls,
                 cache, edits, reloads, chapterSearchQuery, dragItem, dragOverItem, pointerRow,
                 nextId, typed, lastUndo>>

\* A change of tracked state: of the view at any time (the resize handler
\* sets the view mode), of the project once the prompt is closed.
ChangeState ==
  /\ edits < MaxEdits
  /\ \E part \in {"project", "view"} :
       /\ part = "project" => ~showRestorePrompt
       /\ appState' = [appState EXCEPT ![part] = edits + 2]
  /\ edits' = edits + 1
  /\ saveTimeout' = Rendered(TRUE, isRestoring, isInitialized, appState')
  /\ UNCHANGED <<otherVars, showRestorePrompt, isRestoring, isInitialized,
                 restoreCalls, saveCalls, clearCalls, cache, reloads>>

\* A scroll event of the editor or the preview: the listener is there when
\* the guard of lines 280-281 held at the last render.
Scroll ==
  /\ ~isRestoring
  /\ isInitialized
  /\ saveTimeout' = <<appState>>
  /\ UNCHANGED <<otherVars, showRestorePrompt, appState, isRestoring, isInitialized,
                 restoreCalls, saveCalls, clearCalls, cache, edits, reloads>>

\* The timer of debouncedSave fires, 2 s after it was set: saveAppState of
\* the render that set it.
SaveTimerFires ==
  /\ saveTimeout # <<>>
  /\ Len(saveCalls) < MaxSaves
  /\ saveTimeout' = <<>>
  /\ saveCalls' = SaveAppState(saveTimeout[1])
  /\ UNCHANGED <<otherVars, showRestorePrompt, appState, isRestoring, isInitialized,
                 restoreCalls, clearCalls, cache, edits, reloads>>

\* visibilitychange with document.hidden: lines 321-326.
PageHidden ==
  /\ isInitialized
  /\ Len(saveCalls) < MaxSaves
  /\ saveCalls' = SaveAppState(appState)
  /\ UNCHANGED <<otherVars, showRestorePrompt, appState, isRestoring, isInitialized,
                 saveTimeout, restoreCalls, clearCalls, cache, edits, reloads>>

\* saveCalls without the s-th call.
Ended(s) == SubSeq(saveCalls, 1, s - 1) \o SubSeq(saveCalls, s + 1, Len(saveCalls))

\* The put of saveUserState succeeds; on the page that called it,
\* saveAppState goes on with saveProjectData.
UserStateSaved ==
  \E s \in 1..Len(saveCalls) :
    /\ saveCalls[s].phase = "userState"
    /\ cache' = [cache EXCEPT !.userState = <<[view |-> saveCalls[s].state.view,
                                               activeChapterId |-> TRUE,
                                               page |-> saveCalls[s].page]>>]
    /\ saveCalls' = IF saveCalls[s].page = reloads
                      THEN [saveCalls EXCEPT ![s].phase = "projectData"]
                      ELSE Ended(s)
    /\ UNCHANGED <<otherVars, showRestorePrompt, appState, isRestoring, isInitialized,
                   saveTimeout, restoreCalls, clearCalls, edits, reloads>>

\* The put of saveProjectData succeeds, and saveAppState ends.
ProjectDataSaved ==
  \E s \in 1..Len(saveCalls) :
    /\ saveCalls[s].phase = "projectData"
    /\ cache' = [cache EXCEPT !.projectData = <<[project |-> saveCalls[s].state.project,
                                                 page |-> saveCalls[s].page]>>]
    /\ saveCalls' = Ended(s)
    /\ UNCHANGED <<otherVars, showRestorePrompt, appState, isRestoring, isInitialized,
                   saveTimeout, restoreCalls, clearCalls, edits, reloads>>

\* clearCache of the hook, from the settings: up to its await.
ClearCache ==
  /\ ~showRestorePrompt
  /\ "hook" \notin clearCalls
  /\ reloads < MaxReloads
  /\ clearCalls' = clearCalls \cup {"hook"}
  /\ UNCHANGED <<otherVars, showRestorePrompt, appState, isRestoring, isInitialized,
                 saveTimeout, restoreCalls, saveCalls, cache, edits, reloads>>

\* The stores are cleared.  For the hook's clearCache, window.location
\* .reload() follows: the handler of beforeunload calls saveAppState, whose
\* put is issued before the page goes; the puts issued stay with the
\* database; the page is loaded anew, the editor with it.
CacheCleared ==
  \E kind \in clearCalls :
    /\ cache' = [userState |-> <<>>, projectData |-> <<>>]
    /\ clearCalls' = clearCalls \ {kind}
    /\ IF kind = "hook"
         THEN /\ saveCalls' = SaveAppState(appState)
              /\ showRestorePrompt' = TRUE
              /\ appState' = [project |-> 0, view |-> 0]
              /\ isRestoring' = TRUE
              /\ isInitialized' = FALSE
              /\ saveTimeout' = <<>>
              /\ restoreCalls' = <<>>
              /\ reloads' = reloads + 1
              /\ appChapters' = <<DEFAULT_CHAPTER>>
              /\ activeChapterId' = DEFAULT_CHAPTER.id
              /\ chapterSearchQuery' = <<>>
              /\ history' = <<DEFAULT_CHAPTER.content>>
              /\ historyPtr' = 0
              /\ historyTimeout' = <<>>
              /\ dragItem' = <<>>
              /\ dragOverItem' = <<>>
              /\ pointerRow' = <<>>
              /\ lastUndo' = <<>>
              /\ UNCHANGED <<nextId, typed>>
         ELSE UNCHANGED <<showRestorePrompt, appState, isRestoring, isInitialized, saveTimeout,
                          restoreCalls, saveCalls, reloads, editorVars>>
    /\ UNCHANGED <<codecVars, titleVars, edits>>

\* A clear fails: the catch of the hook, or of handleNewDocument, logs it.
ClearFails ==
  \E kind \in clearCalls :
    /\ clearCalls' = clearCalls \ {kind}
    /\ UNCHANGED <<otherVars, showRestorePrompt, appState, isRestoring, isInitialized,
                   saveTimeout, restoreCalls, saveCalls, cache, edits, reloads>>

CacheNext ==
  \/ RestoreAppState
  \/ CacheReadsAnswer
  \/ RestorationTimeout
  \/ RestoreSettled
  \/ RestoreStateDone
  \/ HandleNewDocument
  \/ ChangeState
  \/ Scroll
  \/ SaveTimerFires
  \/ PageHidden
  \/ UserStateSaved
  \/ ProjectDataSaved
  \/ ClearCache
  \/ CacheCleared
  \/ ClearFails

CacheSpec == CacheInit /\ [][CacheNext]_vars

\* The timers fire and the puts issued succeed (saveAppState only logs a
\* failed put; the model leaves failing puts out); the reads of the cache
\* may never answer, and nothing makes the user act.
CacheFairSpec ==
  /\ CacheSpec
  /\ WF_vars(RestorationTimeout)
  /\ WF_vars(RestoreSettled)
  /\ WF_vars(SaveTimerFires)
  /\ WF_vars(UserStateSaved)
  /\ WF_vars(ProjectDataSaved)

(* ---------------------------------------------------------------------- *)
(* The editor with its prompt                                             *)
(* ---------------------------------------------------------------------- *)

EditorInit ==
  /\ CodecIdle
  /\ chapterTitle = <<>>
  /\ chapterContent = <<>>
  /\ exported = <<>>
  /\ PageLoaded
  /\ EditorLoaded
  /\ cache \in {stored \in StoredCaches : stored.userState # <<>>}

\* The operations on the list of chapters: the prompt and what closes it,
\* the sidebar with its search, the settings.
EditorNext ==
  \/ HandleNewDocument
  \/ RestoreAppState
  \/ CacheReadsAnswer
  \/ RestorationTimeout
  \/ RestoreSettled
  \/ RestoreStateDone
  \/ \E imported \in ImportedLists : handleImportEpub(imported)
  \/ addChapter
  \/ \E k \in 1..Len(appChapters) : deleteChapter(appChapters[k].id)
  \/ \E k \in 1..Len(appChapters) : SelectChapter(appChapters[k].id)
  \/ \E query \in SearchQueries : SetChapterSearchQuery(query)
  \/ handleResetApp
  \/ \E idx \in 0..(MaxEditorChapters - 1) : handleDragStart(idx)
  \/ \E idx \in 0..(MaxEditorChapters - 1) : handleDragEnter(idx)
  \/ handleDragLeave
  \/ \E idx \in 0..(MaxEditorChapters - 1) : handleDrop(idx)
  \/ handleDragEnd

EditorSpec == EditorInit /\ [][EditorNext]_vars

\* The operations on the content and its history: the textarea, the
\* toolbar, the keys, the timer, and what changes the active chapter.
HistoryNext ==
  \/ HandleNewDocument
  \/ handleContentInput
  \/ HistoryTimerFires
  \/ insertSyntax
  \/ handleUndo
  \/ handleRedo
  \/ addChapter
  \/ \E k \in 1..Len(appChapters) : deleteChapter(appChapters[k].id)
  \/ \E k \in 1..Len(appChapters) : SelectChapter(appChapters[k].id)

HistorySpec == EditorInit /\ [][HistoryNext]_vars

(* ---------------------------------------------------------------------- *)
(* What the claims speak of                                               *)
(* ---------------------------------------------------------------------- *)

\* Every document of the export is in the archive.
ExportWritten == pc \in {"generate", "exported"}

\* The run imports the file it exported / a file from elsewhere, and the
\* import has ended.
ImportEnded == pc \in {"imported", "failed"}
OwnFile == downloads # <<>>

\* The content of a file of the Writer's archive.
Written(name) == ZipGet(zip, name)[1].content
WrittenOpf == Written(OebpsPath(Chars("content.opf")))
WrittenNcx == Written(OebpsPath(Chars("toc.ncx")))
ChapterPath(k) == Chars("OEBPS") \o <<"/">> \o Chars("chapter_") \o NumStr(k) \o Chars(".xhtml")

\* How many members of a sequence satisfy P.
Count(seq, P(_)) == Cardinality({k \in 1..Len(seq) : P(seq[k])})

\* A text in which none of & < > ' " stands outside an entity.
LiteralFree(s) ==
  /\ WellFormedAttr(s)
  /\ \A k \in 1..Len(s) : s[k] \notin {">", "'"}

\* The mimetype entry as EPUB wants it.
MimetypeEntry ==
  [name |-> Chars("mimetype"), dir |-> FALSE, compression |-> "STORE",
   content |-> [type |-> "text", text |-> Chars("application/epub+zip")]]

\* C1: in every archive exportToEpub builds, at every step of the build and
\* in the file handed to the download, the first entry is the file
\* 'mimetype' with the content 'application/epub+zip', stored without
\* compression, and no other entry has that name; this for every metadata
\* and every chapter list, the empty one included.
C1_MimetypeFirst ==
  /\ pc \in {"container", "cover", "chapters", "opf", "ncx", "generate", "exported"} => zip # <<>>
  /\ zip # <<>> => /\ zip[1] = MimetypeEntry
                   /\ \A k \in 2..Len(zip) : zip[k].name # Chars("mimetype")
  /\ pc = "exported" => Len(downloads) = 1
  /\ \A d \in 1..Len(downloads) :
       /\ downloads[d].blob # <<>>
       /\ downloads[d].blob[1] = MimetypeEntry
       /\ \A k \in 2..Len(downloads[d].blob) : downloads[d].blob[k].name # Chars("mimetype")

\* C1's case: an export of the empty chapter list has handed over its file.
C1_Witness ==
  /\ pc = "exported"
  /\ chapters = <<>>
  /\ Len(downloads[1].blob) > 1
  /\ downloads[1].blob[1].name = Chars("mimetype")

\* The first heading of the chapter's Markdown is its title.
TitleEmbedded(chapter) ==
  LET els == ParseNodes(marked_parse(chapter.content))
      isHeading(el) == el.tag \in HeadingTags
      h == First({p \in 1..Len(els) : isHeading(els[p])})
  IN  h > 0 /\ Trim(textContent(els[h])) = Trim(chapter.title)

\* C2: importEpub of the file exportToEpub wrote for a non-empty chapter
\* list returns as many chapters, in the same order, and the i-th title is
\* the i-th original title unless that title is the first Markdown heading
\* of the chapter's content.
C2_RoundTrip ==
  (OwnFile /\ chapters # <<>> /\ ImportEnded) =>
    /\ pc = "imported"
    /\ Len(result[1].chapters) = Len(chapters)
    /\ \A k \in 1..Len(chapters) :
         /\ result[1].chapters[k].order = k - 1
         /\ ~TitleEmbedded(chapters[k]) => result[1].chapters[k].title = chapters[k].title

\* C2's case: a round trip that keeps a title the content does not embed.
C2_Witness ==
  /\ OwnFile
  /\ pc = "imported"
  /\ Len(chapters) = 2
  /\ Len(result[1].chapters) = 2
  /\ ~TitleEmbedded(chapters[2])
  /\ chapters[2].title = Chars("&<>'\"")
  /\ result[1].chapters[2].title = Chars("&<>'\"")

\* The three cases of a file that is no EPUB.
ContainerMissing == ZipGet(archive, Chars("META-INF/container.xml")) = <<>>
FullPathMissing ==
  /\ ~ContainerMissing
  /\ ZipGet(archive, Chars("META-INF/container.xml"))[1].content.fullPath = Undefined
OpfMissing ==
  /\ ~ContainerMissing
  /\ ~FullPathMissing
  /\ ZipGet(archive,
            XmlDecode(ZipGet(archive, Chars("META-INF/container.xml"))[1].content.fullPath))
       = <<>>
FormatErrors ==
  {"Invalid EPUB: container.xml missing", "Invalid EPUB: OPF path not found",
   "Invalid EPUB: OPF file missing"}

\* C3: importEpub rejects with a format error, and returns no result, when
\* the archive has no META-INF/container.xml, when the container has no
\* full-path, and when the file full-path names is not in the archive; in
\* every other case it does not fail.
C3_FormatErrors ==
  ImportEnded =>
    IF ContainerMissing \/ FullPathMissing \/ OpfMissing
      THEN pc = "failed" /\ error \in FormatErrors /\ result = <<>>
      ELSE pc = "imported" /\ error = "none"

\* C3's case: an import that ended with each kind of format error is
\* reachable; here the one of the missing OPF.
C3_Witness ==
  /\ pc = "failed"
  /\ OpfMissing
  /\ error = "Invalid EPUB: OPF file missing"
  /\ result = <<>>

\* The chapter documents written so far, next to the chapters they are of.
ChaptersWritten == IF pc = "chapters" THEN 1..index ELSE {}

\* The elements of a body that are headings with the trimmed text of title.
TitleHeadings(body, title) ==
  LET isTitle(el) == el.tag \in HeadingTags /\ Trim(textContent(el)) = Trim(title)
  IN  Count(ParseNodes(body), isTitle)

\* The first element of the HTML is a heading of one of the given tags that
\* reads as the title.
StartsWithTitle(html, title, tags) ==
  LET els == ParseNodes(html)
  IN  els # <<>> /\ els[1].tag \in tags /\ Trim(textContent(els[1])) = Trim(title)

\* C4 as amended: when the first top-level element of the transcoded HTML
\* is a level-1 heading whose trimmed text is the trimmed title, the body
\* is that HTML unchanged; otherwise the body is one h1 holding the escaped
\* title, a line break and that HTML.  In both cases the body starts with
\* an h1 that reads as the title.
C4_ExportTitleH1 ==
  \A k \in ChaptersWritten :
    LET body == Written(ChapterPath(k)).body
        html == makeXhtmlCompatible(marked_parse(chapters[k].content))
    IN  /\ body = IF StartsWithTitle(html, chapters[k].title, {Chars("h1")})
                    THEN html
                    ELSE Chars("<h1>") \o escapeXml(chapters[k].title) \o Chars("</h1>")
                         \o <<"\n">> \o html
        /\ StartsWithTitle(body, chapters[k].title, {Chars("h1")})

\* C4's case: one chapter written unchanged and one with its title prepended.
C4_Witness ==
  /\ pc = "chapters"
  /\ index = 2
  /\ Written(ChapterPath(1)).body = makeXhtmlCompatible(marked_parse(chapters[1].content))
  /\ Written(ChapterPath(2)).body # makeXhtmlCompatible(marked_parse(chapters[2].content))

\* C4 as stated: the body is unchanged when the first element is a heading
\* (of any level) that reads as the title, a heading is prepended
\* otherwise, and the body has exactly one heading that reads as the title.
C4_ExportTitleOnce ==
  \A k \in ChaptersWritten :
    LET body == Written(ChapterPath(k)).body
        html == makeXhtmlCompatible(marked_parse(chapters[k].content))
    IN  /\ StartsWithTitle(html, chapters[k].title, HeadingTags) => body = html
        /\ TitleHeadings(body, chapters[k].title) = 1

\* The chapter document the Reader loaded for a chapter it returned.
LoadedDoc(chapter) ==
  ZipGet(archive,
         FullPath(OpfDir(opfPath),
                  ManifestHref(manifestItems, spineRefs[chapter.order + 1])))[1].content

\* The elements of the body of that document, as the parser built them.
LoadedBody(chapter) ==
  IF ChapterWellFormed(LoadedDoc(chapter))
    THEN ParseNodes(LoadedDoc(chapter).body)
    ELSE ParsedBeforeError(ParseNodes(LoadedDoc(chapter).body))

\* The lines of a Markdown text that are a heading of level 1 or 2 reading
\* as the title.
TitleLines(markdown, title) ==
  LET isTitle(line) == line \in {Hashes(n) \o <<" ">> \o Trim(title) : n \in 1..2}
  IN  Count(Split(markdown, "\n"), isTitle)

\* The h1 and h2 elements that read as the title.
TitleElements(els, title) ==
  LET isTitle(el) == el.tag \in {Chars("h1"), Chars("h2")} /\ Trim(textContent(el)) = Trim(title)
  IN  Count(els, isTitle)

EmittedValues ==
  LET opf == WrittenOpf
      ncx == WrittenNcx
      range(seq) == {seq[k] : k \in 1..Len(seq)}
  IN  range(opf.title) \cup range(opf.creator) \cup range(opf.publisher)
      \cup range(opf.description) \cup range(opf.subject)
      \cup {opf.identifier[k].text : k \in 1..Len(opf.identifier)}
      \cup {opf.manifest[k].href : k \in 1..Len(opf.manifest)}
      \cup {opf.manifest[k].mediaType : k \in 1..Len(opf.manifest)}
      \cup {ncx.docTitle}
      \cup {ncx.navPoints[k].label : k \in 1..Len(ncx.navPoints)}
      \cup {Written(ChapterPath(k)).title : k \in 1..Len(chapters)}

\* C6: of every value of the metadata or of a chapter title that
\* exportToEpub has put into content.opf, toc.ncx or a chapter document,
\* none of the characters & < > ' " stands in the XML outside an entity,
\* and an absent value is written as the empty string.
C6_Escaped ==
  ExportWritten =>
    /\ \A v \in EmittedValues : LiteralFree(v)
    /\ ~Truthy(bookMeta.description) => WrittenOpf.description = <<<<>>>>

\* C6's case: a title of the five characters has been written to the OPF,
\* each as its entity.
C6_Witness ==
  /\ ExportWritten
  /\ bookMeta.title = Chars("&<>'\"")
  /\ WrittenOpf.title = <<Chars("&amp;&lt;&gt;&apos;&quot;")>>
  /\ WrittenNcx.docTitle = Chars("&amp;&lt;&gt;&apos;&quot;")

\* The manifest items of the chapters: those of the XHTML media type.
ChapterItems(opf) ==
  LET isChapter(item) == item.mediaType = Chars("application/xhtml+xml")
      positions == {k \in 1..Len(opf.manifest) : isChapter(opf.manifest[k])}
      RECURSIVE pick(_)
      pick(k) == IF k > Len(opf.manifest) THEN <<>>
                 ELSE IF k \in positions THEN <<opf.manifest[k]>> \o pick(k + 1)
                 ELSE pick(k + 1)
  IN  pick(1)

\* C7: for N chapters the archive holds the chapter files
\* OEBPS/chapter_1.xhtml .. OEBPS/chapter_N.xhtml and no other; the manifest
\* has one chapter item chap<k> -> chapter_<k>.xhtml for each; the spine is
\* chap1 .. chapN; the NCX has N navPoints with playOrder 1..N, the k-th
\* labelled with the escaped title of the k-th chapter and pointing at
\* chapter_<k>.xhtml; and every idref of the spine is the id of a manifest
\* item whose file is in the archive.
C7_PackageConsistent ==
  ExportWritten =>
    LET N == Len(chapters)
        opf == WrittenOpf
        ncx == WrittenNcx
        id(k) == Chars("chap") \o NumStr(k)
        href(k) == Chars("chapter_") \o NumStr(k) \o Chars(".xhtml")
    IN  /\ {zip[k].name : k \in {m \in 1..Len(zip) : zip[m].content.type = "xhtml"}}
             = {Chars("OEBPS/") \o href(k) : k \in 1..N}
        /\ Len(ChapterItems(opf)) = N
        /\ \A k \in 1..N : /\ ChapterItems(opf)[k].id = id(k)
                           /\ ChapterItems(opf)[k].href = href(k)
        /\ opf.spine = [k \in 1..N |-> id(k)]
        /\ Len(ncx.navPoints) = N
        /\ \A k \in 1..N : /\ ncx.navPoints[k].playOrder = NumStr(k)
                           /\ ncx.navPoints[k].label = escapeXml(chapters[k].title)
                           /\ ncx.navPoints[k].src = href(k)
        /\ \A k \in 1..Len(opf.spine) :
             \E m \in 1..Len(opf.manifest) :
               /\ opf.manifest[m].id = opf.spine[k]
               /\ ZipGet(zip, Chars("OEBPS/") \o opf.manifest[m].href) # <<>>
        /\ pc = "exported" =>
             [k \in 1..Len(zip) |-> zip[k].name]
               = [k \in 1..Len(downloads[1].blob) |-> downloads[1].blob[k].name]

\* C7's case: a book of two chapters has been exported.
C7_Witness ==
  /\ pc = "exported"
  /\ Len(chapters) = 2
  /\ WrittenOpf.spine = <<Chars("chap1"), Chars("chap2")>>
  /\ ZipGet(downloads[1].blob, Chars("OEBPS/chapter_2.xhtml")) # <<>>

\* The spine positions whose idref has a manifest entry and whose file is
\* in the archive.
Resolving ==
  {k \in 1..Len(spineRefs) :
     LET href == ManifestHref(manifestItems, spineRefs[k])
     IN  Truthy(href) /\ ZipGet(archive, FullPath(OpfDir(opfPath), href)) # <<>>}

\* C8: when an idref of the spine has no manifest entry, or its file is not
\* in the archive, importEpub raises no error and returns one chapter for
\* each spine entry that resolves to a file, in spine order, and none for
\* the others.
C8_TolerantSpine ==
  (ImportEnded /\ error \notin FormatErrors /\ Resolving # 1..Len(spineRefs)) =>
    /\ error = "none"
    /\ Len(result[1].chapters) = Cardinality(Resolving)
    /\ \A k \in 1..Len(result[1].chapters) :
         /\ result[1].chapters[k].order + 1 \in Resolving
         /\ k > 1 => result[1].chapters[k - 1].order < result[1].chapters[k].order

\* C8's case: a spine of an entry without manifest item and an entry with
\* a file was imported, and the one chapter was returned.
C8_Witness ==
  /\ pc = "imported"
  /\ Len(spineRefs) = 2
  /\ Resolving = {2}
  /\ Len(result[1].chapters) = 1
  /\ result[1].chapters[1].order = 1

\* C9: exportToEpub of the empty chapter list runs to its end and writes an
\* archive with an empty spine, no chapter item in the manifest and no
\* chapter file; importEpub of that archive, and of every EPUB whose spine
\* has no entry, raises no error and returns the metadata with chapters = [].
C9_EmptyBook ==
  /\ (chapters = <<>> /\ file = <<>>) => ENABLED Next
  /\ (chapters = <<>> /\ ExportWritten) =>
       /\ WrittenOpf.spine = <<>>
       /\ ChapterItems(WrittenOpf) = <<>>
       /\ \A k \in 1..Len(zip) : zip[k].content.type # "xhtml"
  /\ (chapters = <<>> /\ OwnFile) =>
       /\ error = "none"
       /\ pc # "failed"
       /\ pc = "readChapters" => spineRefs = <<>>
  /\ (pc \in {"readChapters", "imported"} /\ spineRefs = <<>>) =>
       /\ error = "none"
       /\ pc = "readChapters" => ENABLED ImportReturn
       /\ pc = "imported" => result = <<[metadata |-> metadata, chapters |-> <<>>]>>

\* C9's case: the export of an empty book has been imported again.
C9_Witness ==
  /\ OwnFile
  /\ chapters = <<>>
  /\ pc = "imported"
  /\ result[1].chapters = <<>>
  /\ result[1].metadata.author = bookMeta.author

\* The part of a MIME type after its first '/', nothing without one.
RECURSIVE Subtype(_)
Subtype(mime) ==
  IF mime = <<>> THEN <<>>
  ELSE IF Head(mime) = "/" THEN Tail(mime)
  ELSE Subtype(Tail(mime))

\* C10: when the metadata has cover data and a MIME type, the archive holds
\* the image at OEBPS/images/cover.<ext>, <ext> being the subtype of the
\* MIME type or 'jpg' without one; the OPF has one manifest item of
\* properties "cover-image", its href images/cover.<ext>, and a meta of
\* name cover whose content is the id of that item.  For image/png the
\* file is OEBPS/images/cover.png.
C10_Cover ==
  (ExportWritten /\ Truthy(bookMeta.coverData) /\ Truthy(bookMeta.coverMimeType)) =>
    LET ext == IF Subtype(bookMeta.coverMimeType) = <<>> THEN Chars("jpg")
               ELSE Subtype(bookMeta.coverMimeType)
        opf == WrittenOpf
        isCover(item) == item.properties = Chars("cover-image")
        cover == {k \in 1..Len(opf.manifest) : isCover(opf.manifest[k])}
    IN  /\ ZipGet(zip, Chars("OEBPS/images/cover.") \o ext) # <<>>
        /\ Written(Chars("OEBPS/images/cover.") \o ext).type = "base64"
        /\ Cardinality(cover) = 1
        /\ \A k \in cover : /\ opf.manifest[k].href = Chars("images/cover.") \o ext
                            /\ opf.coverMeta = <<opf.manifest[k].id>>
        /\ bookMeta.coverMimeType = Chars("image/png")
             => ZipGet(zip, Chars("OEBPS/images/cover.png")) # <<>>
        /\ pc = "exported" => ZipGet(downloads[1].blob, Chars("OEBPS/images/cover.") \o ext) # <<>>

\* C10's case: a book with a PNG cover has been exported.
C10_Witness ==
  /\ pc = "exported"
  /\ bookMeta.coverMimeType = Chars("image/png")
  /\ ZipGet(downloads[1].blob, Chars("OEBPS/images/cover.png")) # <<>>
  /\ WrittenOpf.coverMeta = <<Chars("cover-image")>>

(* ---------------------------------------------------------------------- *)
(* C11: the optional blocks of the OPF                                    *)
(* ---------------------------------------------------------------------- *)

\* The identifiers of the written OPF that carry the id "isbn", the
\* manifest items that carry the cover's id, and the cover files stored.
IsbnIdentifiers ==
  {k \in 1..Len(WrittenOpf.identifier) : WrittenOpf.identifier[k].id = Chars("isbn")}
CoverItems == {k \in 1..Len(WrittenOpf.manifest) : WrittenOpf.manifest[k].id = coverId}
CoverFilesStored ==
  {k \in 1..Len(zip) : ~zip[k].dir /\ StartsWith(zip[k].name, OebpsPath(Chars("images/")))}

\* C11: in the OPF exportToEpub has written, the ISBN identifier is there
\* exactly when the metadata has an ISBN, a subject is there only when the
\* metadata has tags, the cover's manifest item and its legacy meta are
\* there exactly when a cover file was stored in the archive, and no
\* identifier, subject or cover entry is written with an empty text.
C11_OptionalBlocks ==
  ExportWritten =>
    /\ (IsbnIdentifiers # {}) = Truthy(bookMeta.isbn)
    /\ \A k \in 1..Len(WrittenOpf.identifier) : WrittenOpf.identifier[k].text # <<>>
    /\ (WrittenOpf.subject # <<>>) => bookMeta.tags # <<>>
    /\ \A k \in 1..Len(WrittenOpf.subject) : WrittenOpf.subject[k] # <<>>
    /\ (CoverItems # {}) = (CoverFilesStored # {})
    /\ (WrittenOpf.coverMeta # <<>>) = (CoverFilesStored # {})
    /\ \A k \in CoverItems : Truthy(WrittenOpf.manifest[k].href)

\* C11's case: the tags field of the settings dialog was left as "a," and
\* the book was exported: the OPF has a subject without text.
C11_Witness ==
  /\ ExportWritten
  /\ bookMeta.tags = <<<<"a">>, <<>>>>
  /\ WrittenOpf.subject = <<<<"a">>, <<>>>>

(* ---------------------------------------------------------------------- *)
(* C12: the name of the downloaded file                                   *)
(* ---------------------------------------------------------------------- *)

\* The code point of a character named "U+XXXX"; 0 for the others, which
\* are ASCII.
HexDigits == Chars("0123456789ABCDEF")
HexValue(d) == (CHOOSE k \in 1..Len(HexDigits) : HexDigits[k] = d) - 1
CodePoint(c) ==
  IF Len(c) = 6 /\ SubSeq(c, 1, 2) = "U+"
    THEN LET h == Chars(c)
         IN  4096 * HexValue(h[3]) + 256 * HexValue(h[4]) + 16 * HexValue(h[5]) + HexValue(h[6])
    ELSE 0

\* The range of the regular expression, U+4E00 to U+9FA5, and the CJK
\* unified ideographs of the basic plane: Extension A, U+3400 to U+4DBF,
\* and the main block, U+4E00 to U+9FFF.
InExpressionRange(c) == CodePoint(c) \in 19968..40869
CjkIdeograph(c) == CodePoint(c) \in (13312..19903) \cup (19968..40959)

\* The name the title gets when the characters kept are letters, digits
\* and those that satisfy Kept.
SanitizedBy(title, Kept(_)) ==
  [k \in 1..Len(title) |-> IF title[k] \in AlnumChars \/ Kept(title[k]) THEN title[k] ELSE "_"]
  \o Chars(".epub")

\* C12: the name of every file exportToEpub hands to the download is the
\* title with every character that is neither an ASCII letter or digit nor
\* in the range U+4E00 to U+9FA5 replaced by one "_", followed by ".epub";
\* it has none of "/", ":" and "?".
C12_FileName ==
  \A d \in 1..Len(downloads) :
    /\ downloads[d].name = SanitizedBy(bookMeta.title, InExpressionRange)
    /\ Len(downloads[d].name) = Len(bookMeta.title) + 5
    /\ \A k \in 1..Len(downloads[d].name) : downloads[d].name[k] \notin {"/", ":", "?"}

\* C12's case: the book "My / Book: Draft?" followed by two ideographs was
\* exported.
C12_Witness ==
  /\ downloads # <<>>
  /\ bookMeta.title = Chars("My / Book: Draft?") \o <<"U+4E66", "U+3400">>
  /\ downloads[1].name = Chars("My___Book__Draft_") \o <<"U+4E66", "_">> \o Chars(".epub")

\* C12 as stated: every CJK character of the title is kept in the name.
C12_FileNameKeepsCjk ==
  \A d \in 1..Len(downloads) :
    downloads[d].name = SanitizedBy(bookMeta.title, CjkIdeograph)

(* ---------------------------------------------------------------------- *)
(* C13: the order fields of the chapters                                  *)
(* ---------------------------------------------------------------------- *)

\* The calls of exportToEpub, and the documents of the archive of one.
EpubCalls == {c \in 1..Len(calls) : calls[c].format = "epub"}
Packed(c, name) == ZipGet(calls[c].artifact, name)[1].content
PackedOpf(c) == Packed(c, OebpsPath(Chars("content.opf")))
PackedNcx(c) == Packed(c, OebpsPath(Chars("toc.ncx")))

\* The chapter files of an archive: the entries whose names start with
\* OEBPS/chapter_, in the order of the archive.
PackedChapters(c) ==
  SelectSeq(calls[c].artifact,
            LAMBDA entry : StartsWith(entry.name, OebpsPath(Chars("chapter_"))))

\* Two chapter lists that are equal element by element but for the values
\* of the order fields.
SameButOrder(chs1, chs2) ==
  /\ Len(chs1) = Len(chs2)
  /\ \A k \in 1..Len(chs1) : [chs1[k] EXCEPT !.order = 0] = [chs2[k] EXCEPT !.order = 0]

\* C13: any two calls of exportToEpub whose chapter lists are equal but for
\* the values of the order fields have built the same chapter files, the
\* same manifest, the same spine and the same NCX; and in every archive
\* the k-th chapter of the list is in the file chapter_k.xhtml, which is
\* the k-th entry of the spine.
C13_PositionDecides ==
  /\ \A c1 \in EpubCalls, c2 \in EpubCalls :
       SameButOrder(calls[c1].chapters, calls[c2].chapters) =>
         /\ PackedChapters(c1) = PackedChapters(c2)
         /\ PackedOpf(c1).manifest = PackedOpf(c2).manifest
         /\ PackedOpf(c1).spine = PackedOpf(c2).spine
         /\ PackedNcx(c1) = PackedNcx(c2)
  /\ \A c \in EpubCalls :
       /\ Len(PackedChapters(c)) = Len(calls[c].chapters)
       /\ PackedOpf(c).spine = [k \in 1..Len(calls[c].chapters) |-> Chars("chap") \o NumStr(k)]
       /\ \A k \in 1..Len(calls[c].chapters) :
            /\ PackedChapters(c)[k].name = ChapterPath(k)
            /\ PackedChapters(c)[k].content = ChapterXhtml(calls[c].chapters[k])
            /\ PackedNcx(c).navPoints[k].src = Chars("chapter_") \o NumStr(k) \o Chars(".xhtml")

\* C13's case: two calls of exportToEpub, on lists that differ in the
\* order fields only, one of them with order fields against the positions.
C13_Witness ==
  \E c1 \in EpubCalls, c2 \in EpubCalls :
    /\ SameButOrder(calls[c1].chapters, calls[c2].chapters)
    /\ calls[c1].chapters # calls[c2].chapters
    /\ calls[c1].chapters[1].order = 1
    /\ calls[c2].chapters[1].order = 0

(* ---------------------------------------------------------------------- *)
(* C14: the memos of the chapters                                         *)
(* ---------------------------------------------------------------------- *)

\* The members of a sequence.
Range(seq) == {seq[k] : k \in 1..Len(seq)}

\* sub stands somewhere in text.
Occurs(text, sub) ==
  \E k \in 1..(Len(text) - Len(sub) + 1) : SubSeq(text, k, k + Len(sub) - 1) = sub

\* Every text of a document of an export.
TextsOf(content) ==
  CASE content.type \in {"text", "base64"} -> {content.text}
    [] content.type = "json" ->
         {content.value.title, content.value.author, content.value.publisher,
          content.value.description, content.value.language, content.value.isbn,
          content.value.coverData, content.value.coverMimeType}
         \cup Range(content.value.tags)
    [] content.type = "container" -> {content.fullPath}
    [] content.type = "xhtml" -> {content.title, content.body}
    [] content.type = "opf" ->
         Range(content.title) \cup Range(content.creator) \cup Range(content.publisher)
         \cup Range(content.description) \cup Range(content.language)
         \cup Range(content.subject) \cup Range(content.coverMeta) \cup Range(content.spine)
         \cup {content.identifier[k].text : k \in 1..Len(content.identifier)}
         \cup {content.manifest[k].id : k \in 1..Len(content.manifest)}
         \cup {content.manifest[k].href : k \in 1..Len(content.manifest)}
         \cup {content.manifest[k].mediaType : k \in 1..Len(content.manifest)}
    [] content.type = "ncx" ->
         {content.docTitle}
         \cup {content.navPoints[k].label : k \in 1..Len(content.navPoints)}
         \cup {content.navPoints[k].src : k \in 1..Len(content.navPoints)}
    [] content.type = "html" ->
         {content.title, content.author} \cup Range(content.publisher) \cup Range(content.pages)
    [] OTHER -> {}

\* Every text of what a call has built: the names and the documents of its
\* archive, or the HTML of its container.
ArtifactTexts(c) ==
  IF calls[c].format = "pdf" THEN TextsOf(calls[c].artifact)
  ELSE UNION {TextsOf(calls[c].artifact[k].content) \cup {calls[c].artifact[k].name} :
                k \in 1..Len(calls[c].artifact)}

\* What a call has built, without the random identifier of an EPUB.
Artifact(c) ==
  IF calls[c].format = "epub"
    THEN LET k == ZipIndex(calls[c].artifact, OebpsPath(Chars("content.opf")))
         IN  [calls[c].artifact EXCEPT ![k].content.identifier[1].text = <<>>]
    ELSE calls[c].artifact

\* Two chapter lists that are equal element by element but for the memos.
SameButMemo(chs1, chs2) ==
  /\ Len(chs1) = Len(chs2)
  /\ \A k \in 1..Len(chs1) : [chs1[k] EXCEPT !.memo = <<>>] = [chs2[k] EXCEPT !.memo = <<>>]

\* The memos of the chapters of a call that are not empty.
MemosOf(c) == {calls[c].chapters[k].memo : k \in 1..Len(calls[c].chapters)} \ {<<>>}

\* C14: any two calls of the same export (EPUB, Markdown or PDF) whose
\* chapter lists are equal but for the memos have built the same files
\* with the same content; every file handed to the download is what a
\* call has built, as it was built; and no text of what a call has built,
\* and no name of a downloaded file, holds the memo of a chapter.
C14_MemoNotExported ==
  /\ \A c1 \in 1..Len(calls), c2 \in 1..Len(calls) :
       (/\ calls[c1].format = calls[c2].format
        /\ SameButMemo(calls[c1].chapters, calls[c2].chapters))
       => Artifact(c1) = Artifact(c2)
  /\ \A d \in 1..Len(downloads) :
       \E c \in 1..Len(calls) :
         /\ calls[c].state = "resolved"
         /\ downloads[d].blob = IF calls[c].format = "pdf" THEN <<calls[c].artifact>>
                                ELSE GenerateBlob(calls[c].artifact)
  /\ \A c \in 1..Len(calls) : \A memo \in MemosOf(c) :
       /\ \A text \in ArtifactTexts(c) : ~Occurs(text, memo)
       /\ \A d \in 1..Len(downloads) : ~Occurs(downloads[d].name, memo)

\* C14's case: two calls of exportToMarkdown on lists that differ in the
\* memos only have both handed their file to the download.
C14_Witness ==
  /\ Len(calls) = 2
  /\ calls[1].format = "md"
  /\ calls[2].format = "md"
  /\ SameButMemo(calls[1].chapters, calls[2].chapters)
  /\ calls[1].chapters[1].memo = DEFAULT_CHAPTER.memo
  /\ calls[2].chapters[1].memo = <<>>
  /\ Len(downloads) = 2

(* ---------------------------------------------------------------------- *)
(* C15, C16: the metadata from export to import                           *)
(* ---------------------------------------------------------------------- *)

\* The import of the file the run has exported has ended.
OwnImportEnded == OwnFile /\ ImportEnded

\* C15: when a book whose title and author are not empty was exported and
\* the file imported, importEpub has returned, and the title, the author,
\* the description and the tags of the metadata it returned are those of
\* the book exported, the tags entry by entry.
C15_MetadataRoundTrip ==
  (OwnImportEnded /\ Truthy(bookMeta.title) /\ Truthy(bookMeta.author)) =>
    /\ pc = "imported"
    /\ result[1].metadata.title = bookMeta.title
    /\ result[1].metadata.author = bookMeta.author
    /\ result[1].metadata.description = OrElse(bookMeta.description, <<>>)
    /\ result[1].metadata.tags = bookMeta.tags

\* C15's case: the book whose texts and tags hold & < > ' " was exported
\* and imported, and the metadata returned has them.
C15_Witness ==
  /\ OwnImportEnded
  /\ pc = "imported"
  /\ bookMeta.title = Chars("&<>'\"")
  /\ bookMeta.tags = <<Chars("&<>'\""), <<"t">>>>
  /\ result[1].metadata.title = bookMeta.title
  /\ result[1].metadata.description = bookMeta.description
  /\ result[1].metadata.tags = bookMeta.tags

\* C16: when a book with an ISBN was exported and the file imported,
\* importEpub has returned and the isbn of the metadata it returned is the
\* ISBN of the book exported.
C16_IsbnRoundTrip ==
  (OwnImportEnded /\ Truthy(bookMeta.isbn)) =>
    /\ pc = "imported"
    /\ result[1].metadata.isbn = bookMeta.isbn

\* C16's case: a book with the ISBN "9&" was exported and imported; the
\* isbn returned is the text of the first identifier of the package, the
\* random uuid.
C16_Witness ==
  /\ OwnImportEnded
  /\ pc = "imported"
  /\ bookMeta.isbn = Chars("9&")
  /\ WrittenOpf.identifier[2].text = Chars("urn:isbn:9&amp;")
  /\ result[1].metadata.isbn \in {Chars("urn:uuid:") \o uuid : uuid \in Uuids}

(* ---------------------------------------------------------------------- *)
(* C17: the containers of exportToPdf                                     *)
(* ---------------------------------------------------------------------- *)

\* The calls of exportToPdf, and how often the container of a call is a
\* child of the body.
PdfCalls == {c \in 1..Len(calls) : calls[c].format = "pdf"}
Attached(c) == Cardinality({k \in 1..Len(documentBody) : documentBody[k] = c})

\* C17: while a call of exportToPdf waits for the rasterization its own
\* container is attached to the body, once; when the call has ended,
\* after a rasterization that succeeded or one that failed, its container
\* is attached no more and removeChild has not thrown; the body holds no
\* container but those of the calls that wait, so no call has removed the
\* container of another, and none is left when all calls have ended.
C17_PdfCleanup ==
  /\ \A c \in PdfCalls :
       /\ calls[c].state = "pending" => Attached(c) = 1
       /\ calls[c].state # "pending" => Attached(c) = 0 /\ calls[c].state = "resolved"
  /\ \A k \in 1..Len(documentBody) :
       documentBody[k] \in PdfCalls /\ calls[documentBody[k]].state = "pending"
  /\ (\A c \in 1..Len(calls) : calls[c].state # "pending") => documentBody = <<>>

\* C17's case: two calls of exportToPdf overlap; the rasterization of the
\* second has failed and the call has ended while the first still waits,
\* with its container attached.
C17_Witness ==
  /\ PdfCalls = {1, 2}
  /\ calls[1].state = "pending"
  /\ calls[2].state = "resolved"
  /\ calls[2].failed
  /\ documentBody = <<1>>

(* ---------------------------------------------------------------------- *)
(* C18: an export that fails                                              *)
(* ---------------------------------------------------------------------- *)

\* The calls whose serialization or rasterization has failed.
FailedCalls == {c \in 1..Len(calls) : calls[c].failed}

\* C18: when generateAsync has failed in exportToEpub or exportToMarkdown,
\* or the rasterization in exportToPdf, the promise of the export is
\* rejected and handleExport reports the failure, not success; and the
\* files handed to the download are those of the calls that ended without
\* a failure, one each.
C18_FailurePropagates ==
  /\ \A c \in FailedCalls : calls[c].state = "rejected" /\ calls[c].report = "error"
  /\ Len(downloads) =
       Cardinality({c \in 1..Len(calls) : calls[c].state = "resolved" /\ ~calls[c].failed})

\* C18's case: the rasterization of a call of exportToPdf has failed; the
\* call has returned, handleExport has reported success, and nothing was
\* handed to the download.
C18_Witness ==
  /\ Len(calls) = 1
  /\ calls[1].format = "pdf"
  /\ calls[1].failed
  /\ calls[1].state = "resolved"
  /\ calls[1].report = "success"
  /\ downloads = <<>>

(* ---------------------------------------------------------------------- *)
(* C19: the void tags after makeXhtmlCompatible                           *)
(* ---------------------------------------------------------------------- *)

\* At position k of s starts a tag hr, br or img: the name, then the end
\* of the tag, a blank or a slash.
VoidTagAt(s, k) ==
  \E name \in {Chars("hr"), Chars("br"), Chars("img")} :
    /\ StartsWith(SubSeq(s, k, Len(s)), <<"<">> \o name)
    /\ k + Len(name) + 1 <= Len(s)
    /\ s[k + Len(name) + 1] \in {">", " ", "/"}

\* The tag at k is not self-closing: it does not end with "/>".
OpenAt(s, k) == IndexOfGt(s, k) > 0 /\ s[IndexOfGt(s, k) - 1] # "/"

\* The positions of the void tags of s that are not self-closing.
OpenVoidTags(s) == {k \in 1..Len(s) : VoidTagAt(s, k) /\ OpenAt(s, k)}

\* C19: the result of makeXhtmlCompatible has no tag hr, br or img, with
\* or without attributes, that is not self-closing; a string whose void
\* tags are all self-closing is returned unchanged; and applying
\* makeXhtmlCompatible to its result gives the result again.
C19_Normalized ==
  /\ Len(normalized) >= 1 =>
       /\ OpenVoidTags(normalized[1]) = {}
       /\ OpenVoidTags(htmlInput) = {} => normalized[1] = htmlInput
  /\ Len(normalized) = 2 => normalized[2] = normalized[1]

\* C19's case: makeXhtmlCompatible was applied to a rule with an
\* attribute, followed by a bare break, and returned the rule as it was
\* and the break self-closing.
C19_Witness ==
  /\ htmlInput = Chars("<hr id=a><br>")
  /\ Len(normalized) = 2
  /\ normalized[1] = Chars("<hr id=a><br />")
  /\ normalized[2] = normalized[1]

(* ---------------------------------------------------------------------- *)
(* C20: where importEpub looks for the chapter files                      *)
(* ---------------------------------------------------------------------- *)

\* The position of the last "/" of a path, 0 without one, and the path up
\* to but excluding it.
LastSlash(path) ==
  IF \E k \in 1..Len(path) : path[k] = "/"
    THEN CHOOSE k \in 1..Len(path) :
           path[k] = "/" /\ \A m \in (k + 1)..Len(path) : path[m] # "/"
    ELSE 0
BaseDirectory(path) == SubSeq(path, 1, LastSlash(path) - 1)

\* Where the file of the k-th entry of the spine is to be looked for.
HrefOfSpine(k) == ManifestHref(manifestItems, spineRefs[k])
ExpectedPath(k) ==
  IF BaseDirectory(opfPath) = <<>> THEN HrefOfSpine(k)
  ELSE BaseDirectory(opfPath) \o <<"/">> \o HrefOfSpine(k)

\* The entries of the spine, among the first n, whose files are in the
\* archive where they are to be looked for.
Found(n) ==
  {k \in 1..n : Truthy(HrefOfSpine(k)) /\ ZipGet(archive, ExpectedPath(k)) # <<>>}

\* C20: of the entries of the spine the loop of importEpub has passed, the
\* chapters read are those whose file is in the archive at the base
\* directory of the OPF path, "/", and the href of the manifest (at the
\* href itself when the OPF path has no "/"), each with the title of the
\* document that lies there.
C20_PathResolution ==
  /\ {readChapters[n].order + 1 : n \in 1..Len(readChapters)} = Found(i)
  /\ \A n \in 1..Len(readChapters) :
       LET k == readChapters[n].order + 1
       IN  k \in Found(i) =>
             readChapters[n].title =
               ChapterTitle(BodyElements(ZipGet(archive, ExpectedPath(k))[1].content), k - 1)

\* C20's case: the OPF lies in OEBPS, the file chapter_1.xhtml lies at the
\* root of the archive and not in OEBPS, and the import has returned the
\* second chapter of the spine only.
C20_Witness ==
  /\ pc = "imported"
  /\ opfPath = Chars("OEBPS/content.opf")
  /\ spineRefs = <<Chars("chap1"), Chars("chap2")>>
  /\ ZipGet(archive, Chars("chapter_1.xhtml")) # <<>>
  /\ ZipGet(archive, Chars("OEBPS/chapter_1.xhtml")) = <<>>
  /\ Len(result[1].chapters) = 1
  /\ result[1].chapters[1].order = 1
  /\ result[1].chapters[1].content = <<"2">>

(* ---------------------------------------------------------------------- *)
(* C21: the chapter records of importEpub                                 *)
(* ---------------------------------------------------------------------- *)

\* The n-th smallest member of a set of numbers.
Nth(S, n) == CHOOSE k \in S : Cardinality({m \in S : m <= k}) = n

\* The document at the k-th entry of the spine, and whether its body has a
\* heading of level 1 or 2.
DocOfSpine(k) == ZipGet(archive, ExpectedPath(k))[1].content
HasHeading(doc) ==
  /\ doc.type = "xhtml"
  /\ \E p \in 1..Len(ParseNodes(doc.body)) :
       ParseNodes(doc.body)[p].tag \in {Chars("h1"), Chars("h2")}

\* C21: the n-th chapter importEpub has read belongs to the n-th entry of
\* the spine that has a file, and its order is the 0-based position of that
\* entry in the spine, so the orders increase strictly along the list and
\* skip the entries without a file; a chapter whose document has no heading
\* of level 1 or 2 has the title 'Chapter <position + 1>'.
C21_ChapterRecords ==
  /\ Len(readChapters) = Cardinality(Found(i))
  /\ \A n \in 1..Len(readChapters) :
       /\ readChapters[n].order = Nth(Found(i), n) - 1
       /\ n > 1 => readChapters[n - 1].order < readChapters[n].order
       /\ ~HasHeading(DocOfSpine(Nth(Found(i), n))) =>
            readChapters[n].title = Chars("Chapter ") \o NumStr(Nth(Found(i), n))
  /\ pc = "imported" => result[1].chapters = readChapters

\* C21's case: the first entry of the spine has no manifest item, the
\* document of the second has no heading, and the import has returned one
\* chapter, of order 1 and title 'Chapter 2'.
C21_Witness ==
  /\ pc = "imported"
  /\ Len(spineRefs) = 2
  /\ Found(2) = {2}
  /\ ~HasHeading(DocOfSpine(2))
  /\ Len(result[1].chapters) = 1
  /\ result[1].chapters[1].order = 1
  /\ result[1].chapters[1].title = Chars("Chapter 2")

(* ---------------------------------------------------------------------- *)
(* C22: the metadata of a package that lacks elements                     *)
(* ---------------------------------------------------------------------- *)

\* The package document of the file imported, once the metadata was read
\* from it, when it is an OPF the parser accepts.
MetadataRead == pc \in {"readChapters", "imported"}
LoadedOpf == ZipGet(archive, opfPath)[1].content
OpfAccepted == MetadataRead /\ LoadedOpf.type = "opf" /\ OpfWellFormed(LoadedOpf)

\* The metadata has the default of every element the package lacks.
DefaultsFilled ==
  /\ LoadedOpf.title = <<>> => metadata.title = Chars("Untitled")
  /\ LoadedOpf.creator = <<>> => metadata.author = Chars("Unknown")
  /\ LoadedOpf.language = <<>> => metadata.language = Chars("zh-CN")
  /\ LoadedOpf.description = <<>> => metadata.description = <<>>
  /\ LoadedOpf.publisher = <<>> => metadata.publisher = <<>>
  /\ LoadedOpf.identifier = <<>> => metadata.isbn = <<>>
  /\ LoadedOpf.subject = <<>> => metadata.tags = <<>>

\* The texts of the subject elements that satisfy Kept, in document order.
SubjectsKept(Kept(_)) ==
  SelectSeq([k \in 1..Len(LoadedOpf.subject) |-> XmlDecode(LoadedOpf.subject[k])], Kept)
NotEmpty(text) == text # <<>>
NotBlank(text) == Trim(text) # <<>>

\* C22: the metadata importEpub reads from a package has 'Untitled',
\* 'Unknown' and 'zh-CN' for a missing title, creator and language, the
\* empty string for a missing description, publisher and identifier, and
\* the empty list without subjects; the language is the one the Writer
\* emits for a book without language; the tags are the texts of the subject
\* elements that are neither empty nor blank.
C22_MetadataDefaults ==
  /\ OpfAccepted =>
       /\ DefaultsFilled
       /\ metadata.tags = SubjectsKept(NotBlank)
  /\ ExportWritten => WrittenOpf.language = <<Chars("zh-CN")>>

\* C22's case: a package with a title, a creator and the subjects "s", ""
\* and " " was imported; the tags returned are "s" and " ".
C22_Witness ==
  /\ pc = "imported"
  /\ LoadedOpf.subject = <<<<"s">>, <<>>, <<" ">>>>
  /\ result[1].metadata.tags = <<<<"s">>, <<" ">>>>
  /\ result[1].metadata.title = <<"T">>
  /\ result[1].metadata.language = Chars("zh-CN")
  /\ result[1].metadata.isbn = <<>>

(* ---------------------------------------------------------------------- *)
(* C23: the title line of a chapter of the Markdown export                *)
(* ---------------------------------------------------------------------- *)

\* The trimmed content begins with '# <title>', whatever the case of the
\* letters, the title being taken as literal text.
BeginsWithTitle(content, literal) ==
  StartsWith(Folded(Trim(content)), Folded(Chars("# ") \o literal))
WithTitleLine(content, literal) == Chars("# ") \o literal \o Chars("\n\n") \o content

\* C23: for every title and content, finalContent is not a failure of the
\* export; it is the content unchanged when the trimmed content begins
\* with '# <title>' compared without regard to case, the title taken as
\* literal text, and '# <title>', a blank line and the content otherwise;
\* finalContent of a content that is itself a finalContent for the same
\* title is that content, with no second title line.
C23_MarkdownDedup ==
  /\ Len(exported) >= 1 =>
       /\ exported[1] # SyntaxError
       /\ exported[1] = IF BeginsWithTitle(chapterContent, chapterTitle) THEN chapterContent
                        ELSE WithTitleLine(chapterContent, chapterTitle)
  /\ Len(exported) = 2 => exported[2] = exported[1]

\* C23's case: a chapter titled 'Ab' whose content begins with '# AB' was
\* exported, twice, and the content was written unchanged.
C23_Witness ==
  /\ chapterTitle = Chars("Ab")
  /\ chapterContent = Chars("# AB\n\nx")
  /\ exported = <<chapterContent, chapterContent>>


\* C24: no save is started while a call of restoreAppState still waits for
\* its reads of the cache (nor, by the guard of saveAppState, before the
\* initialization), and as long as the reads are awaited the cache holds
\* what it held when the restoration began.
C24_AutosaveGuard ==
  /\ \A s \in 1..Len(saveCalls) : ~saveCalls[s].reading
  /\ \A c \in 1..Len(restoreCalls) :
       restoreCalls[c].reads = "pending" => cache = restoreCalls[c].stored

\* A restoration that has waited 5 s for its reads, the stored project
\* still unread, while the autosave has written the state in memory.
C24_Witness ==
  /\ Reading
  /\ isInitialized
  /\ cache.userState # <<>>
  /\ cache.userState[1].page = reloads

\* The cache stores version v of the project: of the view.
ProjectStored(v) == cache.projectData # <<>> /\ cache.projectData[1].project = v
ViewStored(v) == cache.userState # <<>> /\ cache.userState[1].view = v

\* C25: once the prompt is closed, each change of the tracked state is
\* eventually in the cache, unless a later change or a reload replaced it
\* in memory before.
C25_AutosaveLiveness ==
  \A v \in 2..(MaxEdits + 1) :
    /\ (~showRestorePrompt /\ appState.project = v)
          ~> (showRestorePrompt \/ appState.project # v \/ ProjectStored(v))
    /\ (~showRestorePrompt /\ appState.view = v)
          ~> (showRestorePrompt \/ appState.view # v \/ ViewStored(v))

\* The prompt was closed by a new document, the project was changed, and
\* neither a timer nor a save is pending.
C25_Witness ==
  /\ ~showRestorePrompt
  /\ restoreCalls = <<>>
  /\ appState.project >= 2
  /\ ~ProjectStored(appState.project)
  /\ saveTimeout = <<>>
  /\ saveCalls = <<>>

\* restoreAppState was called on this page, and none of its timers waits.
RestoreEnded ==
  /\ restoreCalls # <<>>
  /\ \A c \in 1..Len(restoreCalls) : ~restoreCalls[c].timeout /\ ~restoreCalls[c].settle

\* C26: every call of restoreAppState is followed by isRestoring false and
\* the hook initialized, whatever the reads do; and they stay so once the
\* timers of the call are gone.
C26_RestorationTerminates ==
  /\ [](RestoreEnded => ~isRestoring /\ isInitialized)
  /\ (restoreCalls # <<>>) ~> (restoreCalls = <<>> \/ (~isRestoring /\ isInitialized))

\* The reads have not answered within 5 s, and the timeout ended the
\* restoration.
C26_Witness ==
  /\ Reading
  /\ RestoreEnded
  /\ ~isRestoring
  /\ isInitialized

\* C27: after clearCache of the hook succeeded and the page was loaded
\* anew, the cache holds no record that an earlier page wrote.
C27_ClearDurable ==
  reloads >= 1 =>
    /\ cache.userState # <<>> => cache.userState[1].page = reloads
    /\ cache.projectData # <<>> => cache.projectData[1].page = reloads

\* The page was loaded anew after a clear, and the put that beforeunload
\* issued has stored the user state of the page before.
C27_Witness ==
  /\ reloads >= 1
  /\ cache.userState # <<>>
  /\ cache.userState[1].page < reloads
  /\ cache.userState[1].page >= 0

\* C28: whatever is done with chapters (add, delete, reorder, reset, new
\* document, restore, import, also of an EPUB without chapters), the list
\* of chapters is not empty and the active chapter is defined; a delete
\* happens only with more than one chapter, and a delete of the active
\* chapter makes the first chapter that remains the active one.
C28_AlwaysAChapter ==
  /\ [](appChapters # <<>> /\ activeChapter \in Range(appChapters))
  /\ [][\A k \in 1..Len(appChapters) :
          deleteChapter(appChapters[k].id) =>
            /\ Len(appChapters) > 1
            /\ appChapters' # <<>>
            /\ activeChapterId = appChapters[k].id => activeChapterId' = appChapters'[1].id
            /\ activeChapterId # appChapters[k].id => activeChapterId' = activeChapterId]_vars

\* An EPUB without chapters was imported: the list is empty.
C28_Witness ==
  /\ ~showRestorePrompt
  /\ appChapters = <<>>
  /\ activeChapter \notin Range(appChapters)

\* The index, from 1, of the chapter of the given id in chapters.
PositionOf(id) == CHOOSE k \in 1..Len(appChapters) : appChapters[k].id = id

\* The ids of a list, in its order.
IdsOf(list) == [k \in 1..Len(list) |-> list[k].id]

\* The step moved the chapter dragged to the place of the target, the
\* others kept as they were and in their order, and each order is the
\* index.
MovedTo(dragged, target) ==
  /\ Len(appChapters') = Len(appChapters)
  /\ appChapters'[PositionOf(target.id)].id = dragged.id
  /\ IdsOf(SelectSeq(appChapters', LAMBDA c : c.id # dragged.id))
       = IdsOf(SelectSeq(appChapters, LAMBDA c : c.id # dragged.id))
  /\ \A k \in 1..Len(appChapters') :
       /\ appChapters'[k].order = k - 1
       /\ \E j \in 1..Len(appChapters) :
            appChapters'[k] = [appChapters[j] EXCEPT !.order = k - 1]

\* C30: a drop on a row of the sidebar, filtered or not, moves the chapter
\* of the row dragged to the place of the chapter of the row dropped on,
\* or changes nothing when it is the same row; the active id stays, and
\* the drop, like the end of a drag, clears the drag state.
C30_DragReorder ==
  [][/\ \A idx \in 0..(MaxEditorChapters - 1) :
          handleDrop(idx) =>
            /\ IF dragItem[1].index = idx
                 THEN appChapters' = appChapters
                 ELSE MovedTo(filteredChapters[dragItem[1].index + 1],
                              filteredChapters[idx + 1])
            /\ activeChapterId' = activeChapterId
            /\ dragItem' = <<>>
            /\ dragOverItem' = <<>>
     /\ handleDragEnd =>
          /\ appChapters' = appChapters
          /\ dragItem' = <<>>
          /\ dragOverItem' = <<>>]_vars

\* A drop has moved a chapter: the chapters are not in the order they were
\* made in, their order fields count from 0, no drag is under way.
C30_Witness ==
  /\ dragItem = <<>>
  /\ Len(appChapters) = 3
  /\ appChapters[1].id = Chars("id1")
  /\ appChapters[2].id = DEFAULT_CHAPTER.id
  /\ \A k \in 1..3 : appChapters[k].order = k - 1
  /\ chapterSearchQuery # <<>>

\* C29: historyPtr is at most the last index of history, and history has
\* an entry at historyPtr; a redo right after an undo shows the content
\* shown before the undo; a push leaves historyPtr at the last entry, so
\* an edit after an undo discards the entries to redo; a change of the
\* active chapter leaves the history with the single entry of its content
\* and no pending push.
C29_HistoryInBounds ==
  /\ [](historyPtr <= Len(history) - 1 /\ HistoryAt(historyPtr) # Undefined)
  /\ [][/\ handleRedo /\ lastUndo # <<>> => activeChapter'.content = lastUndo[1]
        /\ insertSyntax \/ HistoryTimerFires => historyPtr' = Len(history') - 1
        /\ activeChapterId' # activeChapterId =>
             /\ history' = <<activeChapter'.content>>
             /\ historyPtr' = 0
             /\ historyTimeout' = <<>>]_vars

\* The debounced push ran after an insertion made while it was pending:
\* historyPtr is past the last entry.
C29_Witness ==
  /\ historyTimeout = <<>>
  /\ historyPtr = Len(history)
  /\ historyPtr = 2
====
